---- MODULE Spec2Model ----
(***************************************************************************)
(* Model of the meeting transcriber's capture -> recognition ->            *)
(* aggregation pipeline (src/iot-meeting-minutes): the SessionController   *)
(* of main.py running on the main thread, the SIGINT/SIGTERM handler that  *)
(* Python runs on the main thread between two steps of it, the PortAudio   *)
(* driver thread running AudioRecorder._audio_callback, the VoskSTTEngine  *)
(* adapter, the TranscriptAggregator and the SessionLogger.                *)
(***************************************************************************)
EXTENDS Integers, Sequences, FiniteSets, TLC

(* ------------------------------ bounds -------------------------------- *)
\* blocks the audio driver delivers in one run
MaxBlocks == 2
\* SIGINT/SIGTERM deliveries in one run
MaxSignals == 2
\* steps the clock takes in one run
MaxTicks == 1
\* stop() calls a client of the recorder makes in one run
MaxStops == 2
\* segments a client of the aggregator appends before it clears them
MaxAdds == 2
\* save_transcript() calls a client of the aggregator makes in one run
MaxSaves == 1
\* clear() calls a client of the aggregator makes in one run
MaxClears == 1
\* steps the clock takes while a client drives the aggregator
MaxClientTicks == 1
\* audio devices the host lists
MaxDevices == 2
MaxUtterances == 4
MaxPolls == 2

(* ------------------------- program constants -------------------------- *)
sample_rate == 16000
block_duration_ms == 500
chunk_size == (sample_rate * block_duration_ms) \div 1000
max_retries == 3
save_interval == 30

\* one step of the clock, in seconds
TickSeconds == save_interval

None == "None"
\* Python's None where a result dictionary is expected
NoResult == [type |-> "none", text |-> <<>>]
\* a file that does not exist; an existing file is <<its content>>
Absent == <<>>
\* Python's None where a text is expected
NoText == <<None>>
\* a mic_device_name that is None or '': both are false to "if mic_name"
NoName == <<>>
\* Python's None where a device index is expected; an index i is <<i>>
NoIndex == <<>>

(* ------------------------------- text --------------------------------- *)
\* A text is a sequence of tokens; " " is whitespace, anything else a word.
\* the i-th block the driver delivers, and the word heard in a block
Block(i) == <<"b1", "b2", "b3", "b4", "b5">>[i]
Word(b) == [b1 |-> "w1", b2 |-> "w2", b3 |-> "w3", b4 |-> "w4", b5 |-> "w5"][b]
FlushWord == "wf"

RECURSIVE LStrip(_)
LStrip(t) == IF t # <<>> /\ Head(t) = " " THEN LStrip(Tail(t)) ELSE t

RECURSIVE RStrip(_)
RStrip(t) ==
  IF t # <<>> /\ t[Len(t)] = " " THEN RStrip(SubSeq(t, 1, Len(t) - 1)) ELSE t

\* str.strip()
Strip(t) == RStrip(LStrip(t))

\* what the recognizer may answer for the utterance that block b ends or
\* extends: nothing, whitespace, a word, a word with whitespace around it
EngineTexts(w) == { <<>>, <<" ">>, <<w>>, <<" ", w, " ">> }

(* ------------------------------- state -------------------------------- *)
VARIABLES
  \* main thread: the interrupted frames below, the running frame on top
  stack,
  \* process_audio_stream's locals
  audio_block, result,
  \* SessionController fields
  running, recorder, stt_engine, aggregator, summarizer,
  \* whether the session folder exists, config['mic_device_name'], and
  \* the devices PyAudio enumerates
  session_folder, mic_device_name, devices,
  \* SessionLogger: the log file handle and the tracked errors
  log_file, errors,
  \* AudioRecorder fields and the library objects behind them
  recording, audio_queue, stream, wav_file, wav_frames, frames_recorded, audio,
  \* the driver thread: its position in _audio_callback, its in_data
  cb_pc, cb_block, nblocks,
  \* whether the recognizer holds speech of an utterance not yet ended
  eng_buffered,
  \* TranscriptAggregator fields, its two files, and the wall clock
  segments, start_time, last_save_time, transcript_file, partial_file, now,
  \* summary and metadata files; whether a stop_session call that passed
  \* its guard has returned
  summary_file, meta_file, finalized,
  \* history: blocks put / got, finals returned while recording, how often
  \* each finalization step and library call ran, signals delivered,
  \* whether a block was written to a closed WAV
  enqueued, dequeued, finals, calls, signals, late_write,
  \* history: whether a periodic partial save has failed
  partial_failed,
  \* history: for each AudioRecorder field, the threads that have read or
  \* written it since the stream, and with it the driver thread, exists
  touched,
  \* WakeSleepVosk fields
  session_buffer, master_transcript, active,
  \* the listener thread: its position in listener_loop, its local text,
  \* and whether the list it loaded for append() is no longer session_buffer
  l_pc, l_text, l_stale,
  \* the polling coroutine: its position in get_transcripts and buffer_copy
  p_pc, buffer_copy,
  \* history: the lists get_transcripts returned, concatenated; the
  \* utterances recognized and the polls made so far
  delivered, heard, polls

voskVars == <<session_buffer, master_transcript, active, l_pc, l_text, l_stale,
              p_pc, buffer_copy, delivered, heard, polls>>
ctlVars == <<running, recorder, stt_engine, aggregator, summarizer>>
setupVars == <<session_folder, mic_device_name, devices>>
logVars == <<log_file, errors>>
recVars == <<recording, audio_queue, stream, wav_file, wav_frames, frames_recorded, audio>>
cbVars == <<cb_pc, cb_block, nblocks>>
aggVars == <<segments, start_time, last_save_time, transcript_file, partial_file>>
outVars == <<summary_file, meta_file, finalized>>
loopVars == <<audio_block, result>>
histVars == <<enqueued, dequeued, finals, signals, late_write, partial_failed>>

vars == <<stack, loopVars, ctlVars, setupVars, voskVars, touched, logVars, recVars, cbVars, eng_buffered,
          aggVars, now, outVars, histVars, calls>>

Steps == {"recorder_stop", "stop_stream", "stream_close", "wav_close",
          "terminate", "flush", "save_transcript", "summary", "metadata",
          "logger_close", "clear"}

\* _init_audio's device_index before the search, and whether the
\* "not found, using default" warning was printed
NoDevice == [index |-> NoIndex, warned |-> FALSE]

\* a frame of the main thread: whose code it runs, where it is, the
\* final_result local of stop_session, the text argument of a client's
\* call, the retry_count and device_index locals of _init_audio
Frame(ctx, pc) ==
  [ctx |-> ctx, pc |-> pc, final_result |-> NoResult, text |-> NoText,
   retry_count |-> 0, device |-> NoDevice,
   elapsed_ms |-> 0, timestamp |-> <<>>]

Terminal == {"done", "exited", "crashed"}

Top == stack[Len(stack)]
pc == Top.pc
Alive == stack[1].pc \notin Terminal

\* the AudioRecorder fields whose accesses are recorded
SharedFields == {"audio_queue", "recording", "wav_file", "frames_recorded"}

\* thread reads (mode "r") or writes (mode "w") the fields
Touch(thread, mode, fields) ==
  touched' = [f \in SharedFields |->
                IF f \in fields THEN touched[f] \cup {<<thread, mode>>}
                ELSE touched[f]]

\* a consumer that also polled get_frames_recorded()
ConsumerFieldsCounting == {"audio_queue", "frames_recorded"}

\* get_audio_block(): the only recorder field the consumer touches between
\* start() and stop() is the queue
ConsumerFields == {"audio_queue"}

\* WakeSleepVosk.__init__, and both threads before their first step
VoskInit ==
  /\ session_buffer = <<>> /\ master_transcript = <<>> /\ active = FALSE
  /\ l_pc = "l_wait" /\ l_text = <<>> /\ l_stale = FALSE
  /\ p_pc = "p_idle" /\ buffer_copy = <<>>
  /\ delivered = <<>> /\ heard = 0 /\ polls = 0

SetPc(p) == stack' = [stack EXCEPT ![Len(stack)].pc = p]
Count(step) == calls' = [calls EXCEPT ![step] = @ + 1]

(* --------------------- exceptions on the main thread ------------------ *)
\* The pc at which the frame goes on when exc is raised at pc p, or
\* "propagate" when no try block of the frame's code encloses p.
StartTry == {"S_recorder", "S_open", "S_sleep", "S_wav", "S_engine", "S_agg",
             "S_summ", "S_run", "S_start"}
LoopTry == {"L_check", "L_get", "L_proc", "L_add", "L_log"}
StopTry == {"st_flag", "st_stop", "st_close", "st_wav", "st_term", "ss_flush",
            "ss_add", "sv_write", "ss_summary", "ss_meta", "ss_log", "ss_close"}

\* where control goes when save_transcript() returns in a frame of ctx
AfterSave(ctx) == IF ctx = "client" THEN "c_idle" ELSE "ss_summary"

HandlerFor(f, exc) ==
  LET p == f.pc IN
  CASE p = "sv_remove" -> AfterSave(f.ctx)
    [] exc = "Exception" /\ p \in LoopTry -> "L_exc"
    [] exc = "Exception" /\ p \in StartTry \cup {"L_exc"} /\ f.ctx # "client"
         -> "S_exc"
    [] exc = "Exception" /\ p \in StopTry /\ f.ctx # "client" -> "ss_exc"
    [] exc = "Exception" /\ f.ctx = "client" -> "c_raised"
    [] OTHER -> "propagate"

\* The stack after exc is raised in the top frame of s: the innermost
\* enclosing handler takes it; an exception leaving a signal handler is
\* raised in the frame the handler interrupted; one leaving main() ends
\* the process.
RECURSIVE RaiseIn(_, _)
RaiseIn(s, exc) ==
  LET f == s[Len(s)]
      h == HandlerFor(f, exc)
  IN IF h # "propagate" THEN [s EXCEPT ![Len(s)].pc = h]
     ELSE IF Len(s) > 1 THEN RaiseIn(SubSeq(s, 1, Len(s) - 1), exc)
     ELSE <<[f EXCEPT !.pc = IF exc = "SystemExit" THEN "exited" ELSE "crashed"]>>

Raise(exc) == stack' = RaiseIn(stack, exc)

(* --------------------------- audio devices ---------------------------- *)
\* A name is a sequence of characters. str.lower() on one character:
ToLower(c) ==
  CASE c = "U" -> "u" [] c = "S" -> "s" [] c = "B" -> "b"
    [] c = "M" -> "m" [] c = "I" -> "i" [] c = "C" -> "c"
    [] c = "H" -> "h"
    [] OTHER -> c

\* str.lower()
Lower(t) == [i \in 1..Len(t) |-> ToLower(t[i])]

\* sub in t
Contains(sub, t) ==
  \E k \in 0..(Len(t) - Len(sub)) : SubSeq(t, k + 1, k + Len(sub)) = sub

\* what get_device_info_by_index answers: the name and the number of
\* input channels, which is 0 for an output-only device
DeviceNames == { <<"U", "s", "b">>, <<"M", "i", "c">>, <<"o", "u", "t">> }
DeviceInfos == [name : DeviceNames, maxInputChannels : {0, 1}]

RECURSIVE SeqsUpTo(_, _)
SeqsUpTo(S, n) ==
  IF n = 0 THEN { <<>> }
  ELSE LET shorter == SeqsUpTo(S, n - 1) IN
         shorter \cup { Append(q, x) : q \in shorter, x \in S }

\* the device lists of a host, and the one of a host with a microphone
DeviceLists == SeqsUpTo(DeviceInfos, MaxDevices)
DefaultDevices == << [name |-> <<"M", "i", "c">>, maxInputChannels |-> 1] >>

\* the values config['mic_device_name'] takes
MicNames == { NoName, <<"u", "s", "b">>, <<"U", "S">>, <<"m", "i", "c">>,
              <<"x">> }

(* -------------------------------- Init -------------------------------- *)
Init ==
  /\ stack = <<Frame("main", "S_validate")>>
  /\ audio_block = None /\ result = NoResult
  /\ running = FALSE /\ recorder = FALSE /\ stt_engine = FALSE
  /\ aggregator = FALSE /\ summarizer = FALSE
  /\ session_folder = FALSE /\ mic_device_name = NoName
  /\ devices = DefaultDevices
  /\ log_file = "none" /\ errors = <<>>
  /\ recording = FALSE /\ audio_queue = <<>> /\ stream = "none"
  /\ wav_file = "none" /\ wav_frames = <<>> /\ frames_recorded = 0
  /\ audio = "none"
  /\ cb_pc = "idle" /\ cb_block = None /\ nblocks = 0
  /\ eng_buffered = FALSE
  /\ segments = <<>> /\ start_time = 0 /\ last_save_time = 0
  /\ transcript_file = Absent
  /\ partial_file = Absent /\ now = 0
  /\ summary_file = FALSE /\ meta_file = Absent /\ finalized = FALSE
  /\ enqueued = <<>> /\ dequeued = <<>> /\ finals = <<>>
  /\ calls = [s \in Steps |-> 0] /\ signals = 0 /\ late_write = FALSE
  /\ partial_failed = FALSE
  /\ touched = [f \in SharedFields |-> {}]
  /\ VoskInit

(* --------------------------- SessionLogger ---------------------------- *)
\* log(): the line is written and flushed; an ERROR is also tracked
log(level, tag) ==
  /\ log_file = "open"
  /\ errors' = IF level = "ERROR" THEN Append(errors, tag) ELSE errors
  /\ UNCHANGED log_file

(* ---------------------------- AudioRecorder --------------------------- *)
\* audio_queue.put(in_data)
QueuePut(q, b) == Append(q, b)

\* a get that hands out the newest block first
QueueGetNewest(q) ==
  IF q # <<>> THEN [ret |-> q[Len(q)], rest |-> SubSeq(q, 1, Len(q) - 1)]
  ELSE [ret |-> None, rest |-> q]

\* audio_queue.get(timeout): the oldest block, or None after the timeout
QueueGet(q) ==
  IF q # <<>> THEN [ret |-> Head(q), rest |-> Tail(q)]
  ELSE [ret |-> None, rest |-> q]

\* a callback that does not test self.recording
CbEnterAlways ==
  /\ Alive /\ stream = "active" /\ cb_pc = "idle" /\ nblocks < MaxBlocks
  /\ nblocks' = nblocks + 1
  /\ cb_pc' = "put" /\ cb_block' = Block(nblocks + 1)
  /\ UNCHANGED <<setupVars, voskVars, touched, stack, loopVars, ctlVars, logVars, recVars,
                 eng_buffered, aggVars, now, outVars, histVars, calls>>

\* _audio_callback, entered by the driver with the next block
CbEnter ==
  /\ Alive /\ stream = "active" /\ cb_pc = "idle" /\ nblocks < MaxBlocks
  /\ nblocks' = nblocks + 1
  /\ IF recording
     THEN cb_pc' = "put" /\ cb_block' = Block(nblocks + 1)
     ELSE UNCHANGED <<cb_pc, cb_block>>
  /\ Touch("driver", "r", {"recording"})
  /\ UNCHANGED <<setupVars, voskVars, stack, loopVars, ctlVars, logVars, recVars, eng_buffered,
                 aggVars, now, outVars, histVars, calls>>

CbPut ==
  /\ Alive /\ cb_pc = "put"
  /\ audio_queue' = QueuePut(audio_queue, cb_block)
  /\ enqueued' = Append(enqueued, cb_block)
  /\ cb_pc' = "write"
  /\ Touch("driver", "w", {"audio_queue"})
  /\ UNCHANGED <<setupVars, voskVars, stack, loopVars, ctlVars, logVars, recording, stream,
                 wav_file, wav_frames, frames_recorded, audio, cb_block,
                 nblocks, eng_buffered, aggVars, now, outVars, dequeued,
                 finals, signals, late_write, partial_failed, calls>>

\* a callback that writes the block but leaves the frame count alone
CbWriteUncounted ==
  /\ Alive /\ cb_pc = "write"
  /\ IF wav_file = "open"
     THEN /\ wav_frames' = Append(wav_frames, cb_block)
          /\ UNCHANGED late_write
     ELSE /\ late_write' = TRUE
          /\ UNCHANGED wav_frames
  /\ cb_pc' = "idle" /\ cb_block' = None
  /\ Touch("driver", "w", {"wav_file"})
  /\ UNCHANGED <<setupVars, voskVars, stack, loopVars, ctlVars, logVars, recording, audio_queue,
                 stream, wav_file, frames_recorded, audio, nblocks, eng_buffered,
                 aggVars, now, outVars, enqueued, dequeued, finals, signals,
                 partial_failed, calls>>

\* wav_file.writeframes(in_data) and frames_recorded += frame_count,
\* which no other thread reads; on a closed file writeframes raises in the
\* driver thread and the callback ends there
CbWrite ==
  /\ Alive /\ cb_pc = "write"
  /\ IF wav_file = "open"
     THEN /\ wav_frames' = Append(wav_frames, cb_block)
          /\ frames_recorded' = frames_recorded + chunk_size
          /\ UNCHANGED late_write
     ELSE /\ late_write' = TRUE
          /\ UNCHANGED <<wav_frames, frames_recorded>>
  /\ cb_pc' = "idle" /\ cb_block' = None
  /\ Touch("driver", "w", {"wav_file", "frames_recorded"})
  /\ UNCHANGED <<setupVars, voskVars, stack, loopVars, ctlVars, logVars, recording, audio_queue,
                 stream, wav_file, audio, nblocks, eng_buffered, aggVars, now,
                 outVars, enqueued, dequeued, finals, signals, partial_failed,
                 calls>>

\* a stop_session that goes from stop() straight to save_transcript()
AfterStopSkipsFlush == IF Top.ctx = "client" THEN "c_idle" ELSE "sv_write"

\* where control goes when stop() returns
AfterStop == IF Top.ctx = "client" THEN "c_idle" ELSE "ss_flush"

\* a stop() that leaves the recording flag set
StopFlagKeeps ==
  /\ Alive /\ pc = "st_flag"
  /\ Count("recorder_stop")
  /\ SetPc("st_stop")
  /\ UNCHANGED <<setupVars, voskVars, touched, loopVars, ctlVars, logVars, recording,
                 audio_queue, stream, wav_file, wav_frames, frames_recorded,
                 audio, cbVars, eng_buffered, aggVars, now, outVars, histVars>>

\* stop(): self.recording = False
StopFlag ==
  /\ Alive /\ pc = "st_flag"
  /\ recording' = FALSE
  /\ Count("recorder_stop")
  /\ SetPc("st_stop")
  /\ Touch("main", "w", {"recording"})
  /\ UNCHANGED <<setupVars, voskVars, loopVars, ctlVars, logVars, audio_queue, stream, wav_file,
                 wav_frames, frames_recorded, audio, cbVars, eng_buffered,
                 aggVars, now, outVars, histVars>>

\* a stop_stream() that returns while a callback is still running
StopStreamNoWait ==
  /\ Alive /\ pc = "st_stop"
  /\ Count("stop_stream")
  /\ \/ /\ stream' = IF stream = "active" THEN "stopped" ELSE stream
        /\ SetPc("st_close")
     \/ /\ Raise("Exception")
        /\ UNCHANGED stream
  /\ UNCHANGED <<setupVars, voskVars, touched, loopVars, ctlVars, logVars, recording,
                 audio_queue, wav_file, wav_frames, frames_recorded, audio,
                 cbVars, eng_buffered, aggVars, now, outVars, histVars>>

\* stop(): self.stream.stop_stream() returns once the running callback has
\* returned; like every library call below it may raise instead
StopStream ==
  /\ Alive /\ pc = "st_stop"
  /\ Count("stop_stream")
  /\ \/ /\ stream = "active" => cb_pc = "idle"
        /\ stream' = IF stream = "active" THEN "stopped" ELSE stream
        /\ SetPc("st_close")
     \/ /\ Raise("Exception")
        /\ UNCHANGED stream
  /\ UNCHANGED <<setupVars, voskVars, touched, loopVars, ctlVars, logVars, recording, audio_queue, wav_file,
                 wav_frames, frames_recorded, audio, cbVars, eng_buffered,
                 aggVars, now, outVars, histVars>>

\* stop(): self.stream.close()
StreamClose ==
  /\ Alive /\ pc = "st_close"
  /\ Count("stream_close")
  /\ \/ /\ stream' = "closed"
        /\ SetPc("st_wav")
     \/ /\ Raise("Exception")
        /\ UNCHANGED stream
  /\ UNCHANGED <<setupVars, voskVars, touched, loopVars, ctlVars, logVars, recording, audio_queue, wav_file,
                 wav_frames, frames_recorded, audio, cbVars, eng_buffered,
                 aggVars, now, outVars, histVars>>

\* stop(): self.wav_file.close()
WavClose ==
  /\ Alive /\ pc = "st_wav"
  /\ Count("wav_close")
  /\ \/ /\ wav_file' = "closed"
        /\ SetPc("st_term")
     \/ /\ Raise("Exception")
        /\ UNCHANGED wav_file
  /\ Touch("main", "w", {"wav_file"})
  /\ UNCHANGED <<setupVars, voskVars, loopVars, ctlVars, logVars, recording, audio_queue, stream,
                 wav_frames, frames_recorded, audio, cbVars, eng_buffered,
                 aggVars, now, outVars, histVars>>

\* stop(): self.audio.terminate(), then get_duration() and the print
Terminate ==
  /\ Alive /\ pc = "st_term"
  /\ Count("terminate")
  /\ \/ /\ audio' = "terminated"
        /\ SetPc(AfterStop)
     \/ /\ Raise("Exception")
        /\ UNCHANGED audio
  /\ UNCHANGED <<setupVars, voskVars, touched, loopVars, ctlVars, logVars, recording, audio_queue, stream,
                 wav_file, wav_frames, frames_recorded, cbVars, eng_buffered,
                 aggVars, now, outVars, histVars>>

(* ---------------------------- VoskSTTEngine --------------------------- *)
\* a process_audio that tests the text without strip()
ClassifyNoStrip(boundary, text) ==
  IF boundary
  THEN IF text # <<>> THEN [type |-> "final", text |-> text] ELSE NoResult
  ELSE IF text # <<>> THEN [type |-> "partial", text |-> text] ELSE NoResult

\* a process_audio that reports every non-empty text as final
ClassifyAlwaysFinal(boundary, text) ==
  IF Strip(text) # <<>> THEN [type |-> "final", text |-> text] ELSE NoResult

\* process_audio after AcceptWaveform answered boundary: the Result() text
\* at a boundary, the PartialResult() text otherwise; empty text gives None
Classify(boundary, text) ==
  IF boundary
  THEN IF Strip(text) # <<>> THEN [type |-> "final", text |-> text] ELSE NoResult
  ELSE IF Strip(text) # <<>> THEN [type |-> "partial", text |-> text] ELSE NoResult

\* whether the recognizer holds speech after the call: an utterance
\* boundary resets it, a non-empty hypothesis means it does
BufferedAfter(boundary, text) == ~boundary /\ Strip(text) # <<>>

\* FinalResult(): the finalized text of the buffered utterance; nothing
\* buffered gives the empty text
FlushTexts(buffered) ==
  IF buffered THEN EngineTexts(FlushWord) ELSE {<<>>}

\* get_final_result on the FinalResult() text
FinalOf(text) ==
  IF Strip(text) # <<>> THEN [type |-> "final", text |-> text] ELSE NoResult

(* ------------------------- TranscriptAggregator ----------------------- *)
\* the decimal digits, as characters
DigitChars == <<"0", "1", "2", "3", "4", "5", "6", "7", "8", "9">>

Digit(d) == DigitChars[d + 1]

\* str(n) for n >= 0
RECURSIVE Digits(_)
Digits(n) ==
  IF n < 10 THEN <<Digit(n)>> ELSE Digits(n \div 10) \o <<Digit(n % 10)>>

\* f"{n:02d}": at least two characters, padded on the left with zeros; the
\* sign of a negative number counts as one of them
Pad2(n) ==
  IF n < 0 THEN <<"-">> \o Digits(-n)
  ELSE IF n < 10 THEN <<"0", Digit(n)>>
  ELSE Digits(n)

\* a formatter that shows the time of day: hours wrap at 24
format_ms_of_day(ms) ==
  LET hours == (ms \div 3600000) % 24
      minutes == (ms % 3600000) \div 60000
      secs == (ms % 60000) \div 1000
  IN Pad2(hours) \o <<":">> \o Pad2(minutes) \o <<":">> \o Pad2(secs)

\* _format_timestamp on a float of seconds given in milliseconds:
\* int(seconds // 3600), int((seconds % 3600) // 60), int(seconds % 60),
\* each formatted with :02d and joined by colons
format_ms(ms) ==
  LET hours == ms \div 3600000
      minutes == (ms % 3600000) \div 60000
      secs == (ms % 60000) \div 1000
  IN Pad2(hours) \o <<":">> \o Pad2(minutes) \o <<":">> \o Pad2(secs)

\* _format_timestamp on a whole number of seconds
format_timestamp(seconds) == format_ms(seconds * 1000)

\* a segment whose elapsed time counts down
SegmentCountdown(text) ==
  [timestamp |-> format_timestamp(start_time - now),
   elapsed_seconds |-> start_time - now,
   text |-> Strip(text)]

\* the segment add_segment builds
Segment(text) ==
  [timestamp |-> format_timestamp(now - start_time),
   elapsed_seconds |-> now - start_time,
   text |-> Strip(text)]

\* a transcript whose lines are in reverse order
TranscriptContentReversed(segs) ==
  [lines |-> [i \in 1..Len(segs) |->
                <<segs[Len(segs) + 1 - i].timestamp, segs[Len(segs) + 1 - i].text>>],
   total |-> Len(segs),
   duration |-> IF segs # <<>>
                THEN format_timestamp(segs[Len(segs)].elapsed_seconds)
                ELSE <<>>,
   complete |-> TRUE]

\* what _write_transcript writes: a line per segment, then the footer
TranscriptContent(segs) ==
  [lines |-> [i \in 1..Len(segs) |-> <<segs[i].timestamp, segs[i].text>>],
   total |-> Len(segs),
   duration |-> IF segs # <<>>
                THEN format_timestamp(segs[Len(segs)].elapsed_seconds)
                ELSE <<>>,
   complete |-> TRUE]

\* a file opened for writing whose write failed before the first line
Truncated == [lines |-> <<>>, total |-> 0, duration |-> <<>>, complete |-> FALSE]

\* _write_transcript(path) failing: open() failed, or a write after it did
FailedWrite(file) == {file, <<Truncated>>}

\* a periodic save that is due only after more than the interval
SaveDueStrict == now - last_save_time > save_interval

\* whether add_segment's periodic save is due
SaveDue == now - last_save_time >= save_interval

\* a test for blank text without strip()
IsBlankNoStrip(text) == text = NoText \/ text = <<>>

\* if not text or not text.strip()
IsBlank(text) == text = NoText \/ Strip(text) = <<>>

\* a _save_partial that sets last_save_time even when the write failed
save_partial_advancing(segs) ==
  \/ /\ partial_file' = <<TranscriptContent(segs)>>
     /\ last_save_time' = now
     /\ UNCHANGED partial_failed
  \/ /\ partial_file' \in FailedWrite(partial_file)
     /\ last_save_time' = now
     /\ partial_failed' = TRUE

\* _save_partial with the segments segs: the snapshot is written and
\* last_save_time set, or the write raises, which is caught here
save_partial(segs) ==
  \/ /\ partial_file' = <<TranscriptContent(segs)>>
     /\ last_save_time' = now
     /\ UNCHANGED partial_failed
  \/ /\ partial_file' \in FailedWrite(partial_file)
     /\ UNCHANGED last_save_time
     /\ partial_failed' = TRUE

\* add_segment(text), with _save_partial when the interval has passed
add_segment(text) ==
  IF IsBlank(text)
  THEN UNCHANGED <<aggVars, partial_failed>>
  ELSE LET segs == Append(segments, Segment(text)) IN
       /\ segments' = segs
       /\ IF SaveDue
          THEN save_partial(segs)
          ELSE UNCHANGED <<partial_file, last_save_time, partial_failed>>
       /\ UNCHANGED <<start_time, transcript_file>>

\* get_segment_count
get_segment_count == Len(segments)

\* a join without separator
RECURSIVE JoinTextsNoSpace(_)
JoinTextsNoSpace(segs) ==
  IF segs = <<>> THEN <<>>
  ELSE segs[1].text \o JoinTextsNoSpace(Tail(segs))

\* get_full_transcript
RECURSIVE JoinTexts(_)
JoinTexts(segs) ==
  IF segs = <<>> THEN <<>>
  ELSE IF Len(segs) = 1 THEN segs[1].text
  ELSE segs[1].text \o <<" ">> \o JoinTexts(Tail(segs))

\* the clock; only add_segment reads it, so it moves just before a call
Tick ==
  /\ Alive /\ pc \in {"L_add", "ss_add"}
  /\ now + TickSeconds <= MaxTicks * TickSeconds
  /\ now' = now + TickSeconds
  /\ UNCHANGED <<setupVars, voskVars, touched, stack, loopVars, ctlVars, logVars, recVars, cbVars,
                 eng_buffered, aggVars, outVars, histVars, calls>>

(* -------------------- SessionController.start_session ----------------- *)
\* validate_setup(): True, or False when the model path is missing or the
\* audio check fails or raises; os.makedirs(save_dir), outside its try
\* block, may raise. On False start_session returns False at once.
Validate ==
  /\ Alive /\ pc = "S_validate"
  /\ \/ SetPc("S_folder")
     \/ SetPc("S_false")
     \/ Raise("Exception")
  /\ UNCHANGED <<setupVars, voskVars, touched, loopVars, ctlVars, logVars, recVars, cbVars, eng_buffered,
                 aggVars, now, outVars, histVars, calls>>

\* create_session_folder(), SessionLogger(...), log("Session started"):
\* all before the try block
CreateSession ==
  /\ Alive /\ pc = "S_folder"
  /\ \/ /\ session_folder' = TRUE /\ log_file' = "open"
        /\ SetPc("S_recorder")
     \/ /\ session_folder' \in BOOLEAN
        /\ Raise("Exception")
        /\ UNCHANGED log_file
  /\ UNCHANGED <<mic_device_name, devices, voskVars, touched, loopVars, ctlVars, errors, recVars, cbVars, eng_buffered,
                 aggVars, now, outVars, histVars, calls>>

\* where control goes when AudioRecorder(...) returns
AfterInit(ctx) == IF ctx = "client" THEN "c_idle" ELSE "S_engine"

\* mic_name.lower() in info['name'].lower()
Matches(mic_name, info) == Contains(Lower(mic_name), Lower(info.name))

\* for i in range(get_device_count()): the first i that matches, else None
RECURSIVE FindDevice(_, _, _)
FindDevice(devs, mic_name, i) ==
  IF i >= Len(devs) THEN NoIndex
  ELSE IF Matches(mic_name, devs[i + 1]) THEN <<i>>
  ELSE FindDevice(devs, mic_name, i + 1)

\* _init_audio's device search: no search without a mic_device_name; a
\* search that finds nothing prints the warning and leaves None
SelectDevice(devs, mic_name) ==
  IF mic_name = NoName THEN NoDevice
  ELSE LET d == FindDevice(devs, mic_name, 0) IN
         [index |-> d, warned |-> d = NoIndex]

\* the test after retry_count += 1 that lets the failure through
RetryExhaustedLate(n) == n > max_retries

RetryExhausted(n) == n >= max_retries

\* AudioRecorder(...), _init_audio: PyAudio(), then the device search;
\* creating PyAudio or asking it for a device may raise
InitAudio ==
  /\ Alive /\ pc = "S_recorder"
  /\ audio' = "live"
  /\ \/ stack' = [stack EXCEPT
                    ![Len(stack)].device = SelectDevice(devices, mic_device_name),
                    ![Len(stack)].retry_count = 0,
                    ![Len(stack)].pc = "S_open"]
     \/ Raise("Exception")
  /\ UNCHANGED <<setupVars, voskVars, touched, loopVars, ctlVars, logVars, recording, audio_queue,
                 stream, wav_file, wav_frames, frames_recorded, cbVars,
                 eng_buffered, aggVars, now, outVars, histVars, calls>>

\* _init_audio, one turn of the while loop: self.audio.open(...) gives a
\* stream that runs at once, and the loop breaks; or it raises, and then
\* retry_count += 1 and either the failure is raised or the loop goes on
\* to time.sleep(1)
OpenStream ==
  /\ Alive /\ pc = "S_open"
  /\ \/ /\ stream' = "active"
        /\ SetPc("S_wav")
     \/ /\ LET n == Top.retry_count + 1
               counted == [stack EXCEPT ![Len(stack)].retry_count = n]
           IN IF RetryExhausted(n)
              THEN stack' = RaiseIn(counted, "Exception")
              ELSE stack' = [counted EXCEPT ![Len(stack)].pc = "S_sleep"]
        /\ UNCHANGED stream
  /\ UNCHANGED <<setupVars, voskVars, touched, loopVars, ctlVars, logVars, recording, audio_queue,
                 wav_file, wav_frames, frames_recorded, audio, cbVars,
                 eng_buffered, aggVars, now, outVars, histVars, calls>>

\* _init_audio: time.sleep(1) is over, back to the loop's test
Backoff ==
  /\ Alive /\ pc = "S_sleep"
  /\ SetPc("S_open")
  /\ UNCHANGED <<setupVars, voskVars, touched, loopVars, ctlVars, logVars, recVars, cbVars,
                 eng_buffered, aggVars, now, outVars, histVars, calls>>

\* _init_wav_file: wave.open and the header calls may raise; when
\* AudioRecorder(...) returns, _init_audio's locals are gone and
\* self.recorder is assigned
InitWav ==
  /\ Alive /\ pc = "S_wav"
  /\ \/ /\ wav_file' = "open" /\ recorder' = TRUE
        /\ stack' = [stack EXCEPT ![Len(stack)].device = NoDevice,
                                  ![Len(stack)].retry_count = 0,
                                  ![Len(stack)].pc = AfterInit(Top.ctx)]
     \/ /\ Raise("Exception")
        /\ UNCHANGED <<wav_file, recorder>>
  /\ Touch("main", "w", {"wav_file"})
  /\ UNCHANGED <<setupVars, voskVars, loopVars, running, stt_engine, aggregator,
                 summarizer, logVars, recording, audio_queue, stream,
                 wav_frames, frames_recorded, audio, cbVars, eng_buffered,
                 aggVars, now, outVars, histVars, calls>>

\* VoskSTTEngine(...): loading the model may raise
InitEngine ==
  /\ Alive /\ pc = "S_engine"
  /\ \/ /\ stt_engine' = TRUE
        /\ SetPc("S_agg")
     \/ /\ Raise("Exception")
        /\ UNCHANGED stt_engine
  /\ UNCHANGED <<setupVars, voskVars, touched, loopVars, running, recorder, aggregator, summarizer, logVars,
                 recVars, cbVars, eng_buffered, aggVars, now, outVars,
                 histVars, calls>>

\* TranscriptAggregator(...)
InitAggregator ==
  /\ Alive /\ pc = "S_agg"
  /\ aggregator' = TRUE
  /\ segments' = <<>> /\ start_time' = now /\ last_save_time' = now
  /\ SetPc("S_summ")
  /\ UNCHANGED <<setupVars, voskVars, touched, loopVars, running, recorder, stt_engine, summarizer, logVars,
                 recVars, cbVars, eng_buffered, transcript_file, partial_file,
                 now, outVars, histVars, calls>>

\* Summarizer(...): the NLTK download may raise
InitSummarizer ==
  /\ Alive /\ pc = "S_summ"
  /\ \/ /\ summarizer' = TRUE
        /\ SetPc("S_run")
     \/ /\ Raise("Exception")
        /\ UNCHANGED summarizer
  /\ UNCHANGED <<setupVars, voskVars, touched, loopVars, running, recorder, stt_engine, aggregator, logVars,
                 recVars, cbVars, eng_buffered, aggVars, now, outVars,
                 histVars, calls>>

\* self.running = True
SetRunning ==
  /\ Alive /\ pc = "S_run"
  /\ running' = TRUE
  /\ SetPc("S_start")
  /\ UNCHANGED <<setupVars, voskVars, touched, loopVars, recorder, stt_engine, aggregator, summarizer,
                 logVars, recVars, cbVars, eng_buffered, aggVars, now, outVars,
                 histVars, calls>>

\* self.recorder.start(): the flag, then stream.start_stream()
RecorderStart ==
  /\ Alive /\ pc = "S_start"
  /\ recording' = TRUE
  /\ \/ SetPc("L_check")
     \/ Raise("Exception")
  /\ Touch("main", "w", {"recording"})
  /\ UNCHANGED <<setupVars, voskVars, loopVars, ctlVars, logVars, audio_queue, stream, wav_file,
                 wav_frames, frames_recorded, audio, cbVars, eng_buffered,
                 aggVars, now, outVars, histVars, calls>>

\* start_session's except clause: log the error, return False
StartFailed ==
  /\ Alive /\ pc = "S_exc"
  /\ \/ /\ log("ERROR", "starting")
        /\ SetPc("S_false")
     \/ /\ Raise("Exception")
        /\ UNCHANGED logVars
  /\ UNCHANGED <<setupVars, voskVars, touched, loopVars, ctlVars, recVars, cbVars, eng_buffered, aggVars,
                 now, outVars, histVars, calls>>

\* main(): start_session() answered False, so stop_session is not called
\* and main returns
MainReturn ==
  /\ Alive /\ pc = "S_false"
  /\ SetPc("done")
  /\ UNCHANGED <<setupVars, voskVars, touched, loopVars, ctlVars, logVars, recVars, cbVars,
                 eng_buffered, aggVars, now, outVars, histVars, calls>>

(* ----------------- SessionController.process_audio_stream ------------- *)
\* while self.running; when the loop ends start_session returns True and
\* main() calls stop_session. The locals of the last iteration are dead.
LoopCheck ==
  /\ Alive /\ pc = "L_check"
  /\ SetPc(IF running THEN "L_get" ELSE "ss_check")
  /\ audio_block' = None /\ result' = NoResult
  /\ UNCHANGED <<setupVars, voskVars, touched, ctlVars, logVars, recVars, cbVars, eng_buffered, aggVars,
                 now, outVars, histVars, calls>>

\* audio_block = self.recorder.get_audio_block(); None: continue
GetBlock ==
  /\ Alive /\ pc = "L_get"
  /\ LET g == QueueGet(audio_queue) IN
       /\ audio_queue' = g.rest
       /\ audio_block' = g.ret
       /\ dequeued' = IF g.ret # None THEN Append(dequeued, g.ret) ELSE dequeued
       /\ SetPc(IF g.ret = None THEN "L_check" ELSE "L_proc")
  /\ Touch("main", "w", ConsumerFields)
  /\ UNCHANGED <<setupVars, voskVars, result, ctlVars, logVars, recording, stream, wav_file,
                 wav_frames, frames_recorded, audio, cbVars, eng_buffered,
                 aggVars, now, outVars, enqueued, finals, signals, late_write,
                 partial_failed, calls>>

\* result = self.stt_engine.process_audio(audio_block): the recognizer
\* answers boundary or not with some text, or the call raises
ProcessAudio ==
  /\ Alive /\ pc = "L_proc"
  /\ \/ \E boundary \in BOOLEAN, text \in EngineTexts(Word(audio_block)) :
          LET r == Classify(boundary, text) IN
            /\ result' = r
            /\ eng_buffered' = BufferedAfter(boundary, text)
            /\ finals' = IF r.type = "final"
                         THEN Append(finals, Strip(r.text)) ELSE finals
            /\ SetPc(IF r.type = "final" THEN "L_add" ELSE "L_check")
     \/ /\ Raise("Exception")
        /\ UNCHANGED <<result, eng_buffered, finals>>
  /\ UNCHANGED <<setupVars, voskVars, touched, audio_block, ctlVars, logVars, recVars, cbVars, aggVars, now,
                 outVars, enqueued, dequeued, signals, late_write, partial_failed,
                 calls>>

\* self.aggregator.add_segment(result['text'])
AddSegment ==
  /\ Alive /\ pc = "L_add"
  /\ add_segment(result.text)
  /\ SetPc("L_log")
  /\ UNCHANGED <<setupVars, voskVars, touched, loopVars, ctlVars, logVars, recVars, cbVars, eng_buffered,
                 now, outVars, enqueued, dequeued, finals, signals,
                 late_write, calls>>

\* self.logger.log("Transcribed: ..."), then the status print
LogTranscribed ==
  /\ Alive /\ pc = "L_log"
  /\ \/ /\ log("INFO", "transcribed")
        /\ SetPc("L_check")
     \/ /\ Raise("Exception")
        /\ UNCHANGED logVars
  /\ UNCHANGED <<setupVars, voskVars, touched, loopVars, ctlVars, recVars, cbVars, eng_buffered, aggVars,
                 now, outVars, histVars, calls>>

\* except Exception: log at ERROR; the loop is over, start_session
\* returns True and main() calls stop_session
LoopFailed ==
  /\ Alive /\ pc = "L_exc"
  /\ \/ /\ log("ERROR", "recording")
        /\ SetPc("ss_check")
     \/ /\ Raise("Exception")
        /\ UNCHANGED logVars
  /\ UNCHANGED <<setupVars, voskVars, touched, loopVars, ctlVars, recVars, cbVars, eng_buffered, aggVars,
                 now, outVars, histVars, calls>>

(* --------------------- SessionController.stop_session ----------------- *)
\* a signal_handler without sys.exit(0): the interrupted frame goes on
ReturnToInterrupted ==
  IF Top.ctx = "handler"
  THEN stack' = SubSeq(stack, 1, Len(stack) - 1)
  ELSE SetPc("done")

\* stop_session returns: to main(), which ends, or to signal_handler,
\* whose next statement is sys.exit(0): SystemExit, which no
\* except Exception clause catches
Return ==
  IF Top.ctx = "handler" THEN Raise("SystemExit") ELSE SetPc("done")

\* a guard that never returns early
StopGuardNever == FALSE

\* if not self.running: return
StopGuard == ~running

\* the guard and self.running = False. Only a signal handler can run
\* between the two, and it then finalizes in this call's place.
StopCheck ==
  /\ Alive /\ pc = "ss_check"
  /\ IF StopGuard
     THEN Return /\ UNCHANGED running
     ELSE /\ running' = FALSE
          /\ SetPc(IF recorder THEN "st_flag" ELSE "ss_flush")
  /\ UNCHANGED <<setupVars, voskVars, touched, loopVars, recorder, stt_engine, aggregator, summarizer,
                 logVars, recVars, cbVars, eng_buffered, aggVars, now, outVars,
                 histVars, calls>>

\* final_result = self.stt_engine.get_final_result(); an exception of
\* FinalResult() is caught inside and gives None
Flush ==
  /\ Alive /\ pc = "ss_flush"
  /\ Count("flush")
  /\ \/ \E text \in FlushTexts(eng_buffered) :
          LET r == FinalOf(text) IN
            /\ stack' = [stack EXCEPT
                           ![Len(stack)].final_result = r,
                           ![Len(stack)].pc =
                              IF r # NoResult THEN "ss_add" ELSE "sv_write"]
            /\ eng_buffered' = FALSE
     \/ /\ SetPc("sv_write")
        /\ UNCHANGED eng_buffered
  /\ UNCHANGED <<setupVars, voskVars, touched, loopVars, ctlVars, logVars, recVars, cbVars, aggVars, now,
                 outVars, histVars>>

\* self.aggregator.add_segment(final_result['text'])
FlushAdd ==
  /\ Alive /\ pc = "ss_add"
  /\ add_segment(Top.final_result.text)
  /\ SetPc("sv_write")
  /\ UNCHANGED <<setupVars, voskVars, touched, loopVars, ctlVars, logVars, recVars, cbVars, eng_buffered,
                 now, outVars, enqueued, dequeued, finals, signals,
                 late_write, calls>>

\* save_transcript(): _write_transcript(self.transcript_file)
SaveTranscript ==
  /\ Alive /\ pc = "sv_write"
  /\ Count("save_transcript")
  /\ \/ /\ transcript_file' = <<TranscriptContent(segments)>>
        /\ SetPc(IF partial_file # Absent THEN "sv_remove" ELSE AfterSave(Top.ctx))
     \/ /\ transcript_file' \in FailedWrite(transcript_file)
        /\ Raise("Exception")
  /\ UNCHANGED <<setupVars, voskVars, touched, loopVars, ctlVars, logVars, recVars, cbVars, eng_buffered,
                 segments, start_time, last_save_time, partial_file, now,
                 outVars, histVars>>

\* save_transcript(): os.remove(partial_file) inside try / bare except
RemovePartial ==
  /\ Alive /\ pc = "sv_remove"
  /\ \/ partial_file' = Absent
     \/ UNCHANGED partial_file
  /\ SetPc(AfterSave(Top.ctx))
  /\ UNCHANGED <<setupVars, voskVars, touched, loopVars, ctlVars, logVars, recVars, cbVars, eng_buffered,
                 segments, start_time, last_save_time, transcript_file, now,
                 outVars, histVars, calls>>

\* generate_summary and save_summary, when the transcript text is not blank
Summarize ==
  /\ Alive /\ pc = "ss_summary"
  /\ IF Strip(JoinTexts(segments)) # <<>>
     THEN /\ Count("summary")
          /\ \/ /\ summary_file' = TRUE
                /\ SetPc("ss_meta")
             \/ /\ Raise("Exception")
                /\ UNCHANGED summary_file
     ELSE /\ SetPc("ss_meta")
          /\ UNCHANGED <<summary_file, calls>>
  /\ UNCHANGED <<setupVars, voskVars, touched, loopVars, ctlVars, logVars, recVars, cbVars, eng_buffered,
                 aggVars, now, meta_file, finalized, histVars>>

\* save_metadata(): the metadata record with the logger's errors so far
SaveMetadata ==
  /\ Alive /\ pc = "ss_meta"
  /\ Count("metadata")
  /\ \/ /\ meta_file' = <<[errors |-> errors]>>
        /\ SetPc("ss_log")
     \/ /\ Raise("Exception")
        /\ UNCHANGED meta_file
  /\ UNCHANGED <<setupVars, voskVars, touched, loopVars, ctlVars, logVars, recVars, cbVars, eng_buffered,
                 aggVars, now, summary_file, finalized, histVars>>

\* self.logger.log("Session ended normally")
LogEnded ==
  /\ Alive /\ pc = "ss_log"
  /\ \/ /\ log("INFO", "ended")
        /\ SetPc("ss_close")
     \/ /\ Raise("Exception")
        /\ UNCHANGED logVars
  /\ UNCHANGED <<setupVars, voskVars, touched, loopVars, ctlVars, recVars, cbVars, eng_buffered, aggVars,
                 now, outVars, histVars, calls>>

\* self.logger.close(): the footer, then the file is closed; stop_session
\* returns
LoggerClose ==
  /\ Alive /\ pc = "ss_close"
  /\ Count("logger_close")
  /\ \/ /\ log_file' = "closed"
        /\ finalized' = TRUE
        /\ Return
     \/ /\ log_file' \in {"open", "closed"}
        /\ Raise("Exception")
        /\ UNCHANGED finalized
  /\ UNCHANGED <<setupVars, voskVars, touched, loopVars, ctlVars, errors, recVars, cbVars, eng_buffered,
                 aggVars, now, summary_file, meta_file, histVars>>

\* stop_session's except clause: log at ERROR, and stop_session returns; a
\* log() that raises here leaves stop_session as an exception
StopFailed ==
  /\ Alive /\ pc = "ss_exc"
  /\ \/ /\ log("ERROR", "finalization")
        /\ finalized' = TRUE
        /\ Return
     \/ /\ Raise("Exception")
        /\ UNCHANGED <<logVars, finalized>>
  /\ UNCHANGED <<setupVars, voskVars, touched, loopVars, ctlVars, recVars, cbVars, eng_buffered, aggVars,
                 now, summary_file, meta_file, histVars, calls>>

(* ------------------------- signal_handler ----------------------------- *)
\* SIGINT or SIGTERM: Python runs signal_handler on the main thread before
\* the main thread's next step. The handler calls stop_session, whose
\* guard is taken here: nothing but a further signal can come between.
\* Not running: stop_session returns and sys.exit(0) raises SystemExit at
\* the interrupted step. Running: a handler frame finalizes.
Signal ==
  /\ Alive /\ stack[1].ctx = "main" /\ signals < MaxSignals
  /\ signals' = signals + 1
  /\ IF StopGuard
     THEN Raise("SystemExit") /\ UNCHANGED running
     ELSE /\ running' = FALSE
          /\ stack' = Append(stack,
                        Frame("handler", IF recorder THEN "st_flag" ELSE "ss_flush"))
  /\ UNCHANGED <<setupVars, voskVars, touched, loopVars, recorder, stt_engine, aggregator, summarizer,
                 logVars, recVars, cbVars, eng_buffered, aggVars, now, outVars,
                 enqueued, dequeued, finals, late_write, partial_failed, calls>>

(* ----------------------------- the program ---------------------------- *)
Driver == CbEnter \/ CbPut \/ CbWrite

RecorderStop == StopFlag \/ StopStream \/ StreamClose \/ WavClose \/ Terminate

RecorderInit == InitAudio \/ OpenStream \/ Backoff \/ InitWav

Next ==
  \/ Validate \/ CreateSession \/ RecorderInit \/ InitEngine
  \/ InitAggregator \/ InitSummarizer \/ SetRunning \/ RecorderStart
  \/ StartFailed \/ MainReturn
  \/ LoopCheck \/ GetBlock \/ ProcessAudio \/ AddSegment \/ LogTranscribed
  \/ LoopFailed
  \/ StopCheck \/ RecorderStop \/ Flush \/ FlushAdd
  \/ SaveTranscript \/ RemovePartial \/ Summarize \/ SaveMetadata
  \/ LogEnded \/ LoggerClose \/ StopFailed
  \/ Signal
  \/ Driver \/ Tick

Spec == Init /\ [][Next]_vars

(* ------------------ AudioRecorder driven by a client ------------------ *)
\* A constructed recorder whose public methods a client calls in any
\* order, one call at a time, while the driver thread runs the callback.
InitRecorderClient ==
  /\ stack = <<Frame("client", "c_idle")>>
  /\ audio_block = None /\ result = NoResult
  /\ running = FALSE /\ recorder = TRUE /\ stt_engine = FALSE
  /\ aggregator = FALSE /\ summarizer = FALSE
  /\ session_folder = TRUE /\ mic_device_name = NoName
  /\ devices = DefaultDevices
  /\ log_file = "none" /\ errors = <<>>
  /\ recording = FALSE /\ audio_queue = <<>> /\ stream = "active"
  /\ wav_file = "open" /\ wav_frames = <<>> /\ frames_recorded = 0
  /\ audio = "live"
  /\ cb_pc = "idle" /\ cb_block = None /\ nblocks = 0
  /\ eng_buffered = FALSE
  /\ segments = <<>> /\ start_time = 0 /\ last_save_time = 0
  /\ transcript_file = Absent
  /\ partial_file = Absent /\ now = 0
  /\ summary_file = FALSE /\ meta_file = Absent /\ finalized = FALSE
  /\ enqueued = <<>> /\ dequeued = <<>> /\ finals = <<>>
  /\ calls = [s \in Steps |-> 0] /\ signals = 0 /\ late_write = FALSE
  /\ partial_failed = FALSE
  /\ touched = [f \in SharedFields |-> {}]
  /\ VoskInit

\* start(), before any stop()
ClientStart ==
  /\ pc = "c_idle" /\ ~recording /\ calls["recorder_stop"] = 0
  /\ recording' = TRUE
  /\ Touch("main", "w", {"recording"})
  /\ UNCHANGED <<setupVars, voskVars, stack, loopVars, ctlVars, logVars, audio_queue, stream,
                 wav_file, wav_frames, frames_recorded, audio, cbVars,
                 eng_buffered, aggVars, now, outVars, histVars, calls>>

\* get_audio_block()
ClientGet ==
  /\ pc = "c_idle"
  /\ LET g == QueueGet(audio_queue) IN
       /\ audio_queue' = g.rest
       /\ audio_block' = g.ret
       /\ dequeued' = IF g.ret # None THEN Append(dequeued, g.ret) ELSE dequeued
  /\ Touch("main", "w", ConsumerFields)
  /\ UNCHANGED <<setupVars, voskVars, stack, result, ctlVars, logVars, recording, stream, wav_file,
                 wav_frames, frames_recorded, audio, cbVars, eng_buffered,
                 aggVars, now, outVars, enqueued, finals, signals, late_write,
                 partial_failed, calls>>

\* stop() is called
ClientStop ==
  /\ pc = "c_idle" /\ calls["recorder_stop"] < MaxStops
  /\ SetPc("st_flag")
  /\ UNCHANGED <<setupVars, voskVars, touched, loopVars, ctlVars, logVars, recVars, cbVars, eng_buffered,
                 aggVars, now, outVars, histVars, calls>>

\* the client has seen stop() raise and goes on
ClientCatch ==
  /\ pc = "c_raised"
  /\ SetPc("c_idle")
  /\ UNCHANGED <<setupVars, voskVars, touched, loopVars, ctlVars, logVars, recVars, cbVars, eng_buffered,
                 aggVars, now, outVars, histVars, calls>>

NextRecorderClient ==
  \/ ClientStart \/ ClientGet \/ ClientStop \/ ClientCatch
  \/ RecorderStop \/ Driver

SpecRecorder == InitRecorderClient /\ [][NextRecorderClient]_vars

(* ------------- AudioRecorder constructed by a client ------------------ *)
\* A client constructs an AudioRecorder on a host with some devices and
\* some mic_device_name in the configuration.
InitAudioClient ==
  /\ stack = <<Frame("client", "S_recorder")>>
  /\ audio_block = None /\ result = NoResult
  /\ running = FALSE /\ recorder = FALSE /\ stt_engine = FALSE
  /\ aggregator = FALSE /\ summarizer = FALSE
  /\ session_folder = TRUE
  /\ mic_device_name \in MicNames
  /\ devices \in DeviceLists
  /\ log_file = "none" /\ errors = <<>>
  /\ recording = FALSE /\ audio_queue = <<>> /\ stream = "none"
  /\ wav_file = "none" /\ wav_frames = <<>> /\ frames_recorded = 0
  /\ audio = "none"
  /\ cb_pc = "idle" /\ cb_block = None /\ nblocks = 0
  /\ eng_buffered = FALSE
  /\ segments = <<>> /\ start_time = 0 /\ last_save_time = 0
  /\ transcript_file = Absent
  /\ partial_file = Absent /\ now = 0
  /\ summary_file = FALSE /\ meta_file = Absent /\ finalized = FALSE
  /\ enqueued = <<>> /\ dequeued = <<>> /\ finals = <<>>
  /\ calls = [s \in Steps |-> 0] /\ signals = 0 /\ late_write = FALSE
  /\ partial_failed = FALSE
  /\ touched = [f \in SharedFields |-> {}]
  /\ VoskInit

NextAudioClient == RecorderInit \/ ClientCatch

SpecInitAudio == InitAudioClient /\ [][NextAudioClient]_vars

(* --------------- TranscriptAggregator driven by a client -------------- *)
\* A constructed aggregator whose public methods a client calls in any
\* order, one call at a time, while the clock moves.
InitAggregatorClient ==
  /\ stack = <<Frame("client", "c_idle")>>
  /\ audio_block = None /\ result = NoResult
  /\ running = FALSE /\ recorder = FALSE /\ stt_engine = FALSE
  /\ aggregator = TRUE /\ summarizer = FALSE
  /\ session_folder = TRUE /\ mic_device_name = NoName
  /\ devices = DefaultDevices
  /\ log_file = "none" /\ errors = <<>>
  /\ recording = FALSE /\ audio_queue = <<>> /\ stream = "none"
  /\ wav_file = "none" /\ wav_frames = <<>> /\ frames_recorded = 0
  /\ audio = "none"
  /\ cb_pc = "idle" /\ cb_block = None /\ nblocks = 0
  /\ eng_buffered = FALSE
  /\ segments = <<>> /\ start_time = 0 /\ last_save_time = 0
  /\ transcript_file = Absent
  /\ partial_file = Absent /\ now = 0
  /\ summary_file = FALSE /\ meta_file = Absent /\ finalized = FALSE
  /\ enqueued = <<>> /\ dequeued = <<>> /\ finals = <<>>
  /\ calls = [s \in Steps |-> 0] /\ signals = 0 /\ late_write = FALSE
  /\ partial_failed = FALSE
  /\ touched = [f \in SharedFields |-> {}]
  /\ VoskInit

\* the texts a client passes to add_segment: None, the empty string,
\* whitespace, the next word, the next word with whitespace around it
ClientTexts == {NoText} \cup EngineTexts(Word(Block(get_segment_count + 1)))

\* add_segment(text) is called
ClientCallAdd ==
  /\ pc = "c_idle" /\ get_segment_count < MaxAdds
  /\ \E text \in ClientTexts :
       stack' = [stack EXCEPT ![Len(stack)].pc = "a_add",
                              ![Len(stack)].text = text]
  /\ UNCHANGED <<setupVars, voskVars, touched, loopVars, ctlVars, logVars, recVars, cbVars, eng_buffered,
                 aggVars, now, outVars, histVars, calls>>

\* add_segment(text) runs and returns
ClientAdd ==
  /\ pc = "a_add"
  /\ add_segment(Top.text)
  /\ SetPc("c_idle")
  /\ UNCHANGED <<setupVars, voskVars, touched, loopVars, ctlVars, logVars, recVars, cbVars, eng_buffered,
                 now, outVars, enqueued, dequeued, finals, signals,
                 late_write, calls>>

\* save_transcript() is called
ClientSave ==
  /\ pc = "c_idle" /\ calls["save_transcript"] < MaxSaves
  /\ SetPc("sv_write")
  /\ UNCHANGED <<setupVars, voskVars, touched, loopVars, ctlVars, logVars, recVars, cbVars, eng_buffered,
                 aggVars, now, outVars, histVars, calls>>

\* clear()
ClientClear ==
  /\ pc = "c_idle" /\ calls["clear"] < MaxClears
  /\ Count("clear")
  /\ segments' = <<>> /\ start_time' = now
  /\ UNCHANGED <<setupVars, voskVars, touched, stack, loopVars, ctlVars, logVars, recVars, cbVars,
                 eng_buffered, last_save_time, transcript_file, partial_file,
                 now, outVars, histVars>>

\* the clock, which add_segment and clear read: it moves between calls
ClientTick ==
  /\ pc = "c_idle"
  /\ now + TickSeconds <= MaxClientTicks * TickSeconds
  /\ now' = now + TickSeconds
  /\ UNCHANGED <<setupVars, voskVars, touched, stack, loopVars, ctlVars, logVars, recVars, cbVars,
                 eng_buffered, aggVars, outVars, histVars, calls>>

NextAggregatorClient ==
  \/ ClientCallAdd \/ ClientAdd \/ ClientSave \/ ClientClear \/ ClientCatch
  \/ SaveTranscript \/ RemovePartial \/ ClientTick

SpecAggregator == InitAggregatorClient /\ [][NextAggregatorClient]_vars

(* --------------- _format_timestamp called by a client ----------------- *)
\* the whole seconds the formatter is given: both sides of every carry
\* (minute, hour, day, a third hours digit) and the ends of each field
WholeSeconds ==
  {0, 1, 9, 10, 59, 60, 61, 599, 600, 3599, 3600, 3661, 35999, 36000,
   86399, 86400, 90000, 359999, 360000}

\* the fraction of a second on top, in milliseconds
Fractions == {0, 1, 500, 999}

TimestampInputs == {s * 1000 + f : s \in WholeSeconds, f \in Fractions}

InitTimestampClient ==
  /\ \E ms \in TimestampInputs :
       stack = <<[Frame("client", "f_call") EXCEPT !.elapsed_ms = ms]>>
  /\ audio_block = None /\ result = NoResult
  /\ running = FALSE /\ recorder = FALSE /\ stt_engine = FALSE
  /\ aggregator = TRUE /\ summarizer = FALSE
  /\ session_folder = TRUE /\ mic_device_name = NoName
  /\ devices = DefaultDevices
  /\ log_file = "none" /\ errors = <<>>
  /\ recording = FALSE /\ audio_queue = <<>> /\ stream = "none"
  /\ wav_file = "none" /\ wav_frames = <<>> /\ frames_recorded = 0
  /\ audio = "none"
  /\ cb_pc = "idle" /\ cb_block = None /\ nblocks = 0
  /\ eng_buffered = FALSE
  /\ segments = <<>> /\ start_time = 0 /\ last_save_time = 0
  /\ transcript_file = Absent
  /\ partial_file = Absent /\ now = 0
  /\ summary_file = FALSE /\ meta_file = Absent /\ finalized = FALSE
  /\ enqueued = <<>> /\ dequeued = <<>> /\ finals = <<>>
  /\ calls = [s \in Steps |-> 0] /\ signals = 0 /\ late_write = FALSE
  /\ partial_failed = FALSE
  /\ touched = [f \in SharedFields |-> {}]
  /\ VoskInit

\* _format_timestamp(seconds) runs and returns the string
ClientFormat ==
  /\ pc = "f_call"
  /\ stack' = [stack EXCEPT ![Len(stack)].pc = "c_idle",
                            ![Len(stack)].timestamp = format_ms(Top.elapsed_ms)]
  /\ UNCHANGED <<setupVars, voskVars, touched, loopVars, ctlVars, logVars, recVars, cbVars,
                 eng_buffered, aggVars, now, outVars, histVars, calls>>

NextTimestampClient == ClientFormat

SpecTimestamp == InitTimestampClient /\ [][NextTimestampClient]_vars

(* ------------------------- WakeSleepVosk ------------------------------ *)
wake_words == { <<"h", "i">>, <<"h", "e", "y">>, <<"h", "a", "i">> }
sleep_words == { <<"b", "y", "e">>, <<"b", "y">>,
                 <<"g", "o", "o", "d", "b", "y", "e">> }

\* text.replace(".", "").replace(",", "")
RemovePunctuation(t) == SelectSeq(t, LAMBDA c : c \notin {".", ","})

\* str.split(): the maximal runs of non-blank characters
RECURSIVE Split(_)
Split(t) ==
  IF t = <<>> THEN <<>>
  ELSE IF Head(t) = " " THEN Split(Tail(t))
  ELSE LET n == IF \E i \in 1..Len(t) : t[i] = " "
                THEN CHOOSE i \in 1..Len(t) :
                       t[i] = " " /\ \A j \in 1..(i - 1) : t[j] # " "
                ELSE Len(t) + 1
       IN <<SubSeq(t, 1, n - 1)>> \o Split(SubSeq(t, n, Len(t)))

\* a match of a word anywhere inside a token
AnyWordInside(words, tokens) ==
  \E w \in words : \E i \in 1..Len(tokens) : Contains(w, tokens[i])

\* any(word in tokens for word in words)
AnyWordIn(words, tokens) ==
  \E w \in words : \E i \in 1..Len(tokens) : tokens[i] = w

\* What the recognizer may return as "text", each with what a reader sees
\* in it: a plain word, a wake word with a capital and a full stop, a sleep
\* word with a comma, a word that merely starts like a wake word, a wake
\* word followed by a sleep word, and blank text.
Utterances ==
  { [raw |-> <<"n", "o", "t", "e">>, wake |-> FALSE, sleep |-> FALSE],
    [raw |-> <<"H", "i", ".">>, wake |-> TRUE, sleep |-> FALSE],
    [raw |-> <<"b", "y", ",">>, wake |-> FALSE, sleep |-> TRUE],
    [raw |-> <<"h", "i", "g", "h">>, wake |-> FALSE, sleep |-> FALSE],
    [raw |-> <<"h", "e", "y", " ", "b", "y", "e">>, wake |-> TRUE,
     sleep |-> TRUE],
    [raw |-> <<" ">>, wake |-> FALSE, sleep |-> FALSE] }

\* listener_loop: the recognizer completes utterance u; the text is
\* normalised and tested for wake and sleep words, and active is switched or
\* the text kept for the two appends
ListenerHear(u) ==
  /\ l_pc = "l_wait" /\ heard < MaxUtterances
  /\ heard' = heard + 1
  /\ LET text == Strip(Lower(u.raw))
         tokens == Split(RemovePunctuation(text))
     IN IF text = <<>>
        THEN UNCHANGED <<active, l_pc, l_text>>
        ELSE IF AnyWordIn(wake_words, tokens)
        THEN active' = TRUE /\ UNCHANGED <<l_pc, l_text>>
        ELSE IF AnyWordIn(sleep_words, tokens)
        THEN active' = FALSE /\ UNCHANGED <<l_pc, l_text>>
        ELSE IF active
        THEN l_pc' = "l_load" /\ l_text' = text /\ UNCHANGED active
        ELSE UNCHANGED <<active, l_pc, l_text>>
  /\ UNCHANGED <<session_buffer, master_transcript, l_stale, p_pc,
                 buffer_copy, delivered, polls>>
  /\ UNCHANGED <<stack, loopVars, ctlVars, setupVars, touched, logVars,
                 recVars, cbVars, eng_buffered, aggVars, now, outVars,
                 histVars, calls>>

\* self.session_buffer.append(text): the list is loaded from the field ...
ListenerLoad ==
  /\ l_pc = "l_load"
  /\ l_pc' = "l_append" /\ l_stale' = FALSE
  /\ UNCHANGED <<session_buffer, master_transcript, active, l_text, p_pc,
                 buffer_copy, delivered, heard, polls>>
  /\ UNCHANGED <<stack, loopVars, ctlVars, setupVars, touched, logVars,
                 recVars, cbVars, eng_buffered, aggVars, now, outVars,
                 histVars, calls>>

\* ... and the text appended to the list that was loaded, which is no longer
\* the session buffer if get_transcripts replaced it in between
ListenerAppend ==
  /\ l_pc = "l_append"
  /\ session_buffer' = IF l_stale THEN session_buffer
                       ELSE Append(session_buffer, l_text)
  /\ l_pc' = "l_master" /\ l_stale' = FALSE
  /\ UNCHANGED <<master_transcript, active, l_text, p_pc, buffer_copy,
                 delivered, heard, polls>>
  /\ UNCHANGED <<stack, loopVars, ctlVars, setupVars, touched, logVars,
                 recVars, cbVars, eng_buffered, aggVars, now, outVars,
                 histVars, calls>>

\* self.master_transcript.append(text)
ListenerMaster ==
  /\ l_pc = "l_master"
  /\ master_transcript' = Append(master_transcript, l_text)
  /\ l_pc' = "l_wait" /\ l_text' = <<>>
  /\ UNCHANGED <<session_buffer, active, l_stale, p_pc, buffer_copy,
                 delivered, heard, polls>>
  /\ UNCHANGED <<stack, loopVars, ctlVars, setupVars, touched, logVars,
                 recVars, cbVars, eng_buffered, aggVars, now, outVars,
                 histVars, calls>>

\* get_transcripts(), polled by websocket_endpoint: if self.session_buffer
PollTest ==
  /\ p_pc = "p_idle" /\ polls < MaxPolls
  /\ polls' = polls + 1
  /\ p_pc' = IF session_buffer # <<>> THEN "p_copy" ELSE "p_idle"
  /\ UNCHANGED <<session_buffer, master_transcript, active, l_pc, l_text,
                 l_stale, buffer_copy, delivered, heard>>
  /\ UNCHANGED <<stack, loopVars, ctlVars, setupVars, touched, logVars,
                 recVars, cbVars, eng_buffered, aggVars, now, outVars,
                 histVars, calls>>

\* buffer_copy = self.session_buffer[:]
PollCopy ==
  /\ p_pc = "p_copy"
  /\ buffer_copy' = session_buffer
  /\ p_pc' = "p_reset"
  /\ UNCHANGED <<session_buffer, master_transcript, active, l_pc, l_text,
                 l_stale, delivered, heard, polls>>
  /\ UNCHANGED <<stack, loopVars, ctlVars, setupVars, touched, logVars,
                 recVars, cbVars, eng_buffered, aggVars, now, outVars,
                 histVars, calls>>

\* self.session_buffer = []; return buffer_copy
PollReset ==
  /\ p_pc = "p_reset"
  /\ session_buffer' = <<>>
  /\ l_stale' = (l_pc = "l_append")
  /\ delivered' = delivered \o buffer_copy
  /\ buffer_copy' = <<>> /\ p_pc' = "p_idle"
  /\ UNCHANGED <<master_transcript, active, l_pc, l_text, heard, polls>>
  /\ UNCHANGED <<stack, loopVars, ctlVars, setupVars, touched, logVars,
                 recVars, cbVars, eng_buffered, aggVars, now, outVars,
                 histVars, calls>>

Listener ==
  \/ \E u \in Utterances : ListenerHear(u)
  \/ ListenerLoad \/ ListenerAppend \/ ListenerMaster

get_transcripts == PollTest \/ PollCopy \/ PollReset

\* main_vosk: the object is constructed and started at import; no session
\* of the recorder program exists in this process
InitVosk ==
  /\ stack = <<Frame("client", "c_idle")>>
  /\ audio_block = None /\ result = NoResult
  /\ running = FALSE /\ recorder = FALSE /\ stt_engine = FALSE
  /\ aggregator = FALSE /\ summarizer = FALSE
  /\ session_folder = FALSE /\ mic_device_name = NoName
  /\ devices = DefaultDevices
  /\ log_file = "none" /\ errors = <<>>
  /\ recording = FALSE /\ audio_queue = <<>> /\ stream = "none"
  /\ wav_file = "none" /\ wav_frames = <<>> /\ frames_recorded = 0
  /\ audio = "none"
  /\ cb_pc = "idle" /\ cb_block = None /\ nblocks = 0
  /\ eng_buffered = FALSE
  /\ segments = <<>> /\ start_time = 0 /\ last_save_time = 0
  /\ transcript_file = Absent
  /\ partial_file = Absent /\ now = 0
  /\ summary_file = FALSE /\ meta_file = Absent /\ finalized = FALSE
  /\ enqueued = <<>> /\ dequeued = <<>> /\ finals = <<>>
  /\ calls = [s \in Steps |-> 0] /\ signals = 0 /\ late_write = FALSE
  /\ partial_failed = FALSE
  /\ touched = [f \in SharedFields |-> {}]
  /\ VoskInit

NextVosk == Listener \/ get_transcripts

SpecVosk == InitVosk /\ [][NextVosk]_vars

(* ============================== properties ============================ *)
\* the pc of the running frame after the step
NextPc == stack'[Len(stack')].pc

\* the main thread itself executes the step at pc p (no signal arrives)
MainStep(p) == pc = p /\ stack' # stack /\ signals' = signals

\* frames a sequence of blocks holds
FramesOf(blocks) == Len(blocks) * chunk_size

\* the segment texts of the canonical transcript, in file order
TranscriptTexts ==
  IF transcript_file = Absent THEN <<>>
  ELSE [i \in 1..Len(transcript_file[1].lines) |-> transcript_file[1].lines[i][2]]

\* pcs inside stop_session's try block or its except clause
StopPcs == StopTry \cup {"sv_remove", "ss_exc"}

\* some frame of the main thread is in the middle of stop_session
InFinalization == \E i \in 1..Len(stack) : stack[i].pc \in StopPcs

LibraryCalls == {"stop_stream", "stream_close", "wav_close", "terminate"}

\* C1: get_audio_block hands out the blocks the callback enqueued in
\* enqueue order, none duplicated, reordered or skipped: the blocks got so
\* far followed by the blocks still queued are the blocks put so far; a
\* call on a non-empty queue returns its oldest block, a call on an empty
\* queue returns None, and a call can always return.
C1_FifoQueue ==
  /\ [](enqueued = dequeued \o audio_queue)
  /\ [][MainStep("L_get") =>
          IF audio_queue = <<>>
          THEN /\ audio_block' = None
               /\ NextPc = "L_check"
               /\ UNCHANGED <<dequeued, audio_queue>>
          ELSE /\ audio_block' = Head(audio_queue)
               /\ NextPc = "L_proc"
               /\ dequeued' = Append(dequeued, Head(audio_queue))
               /\ audio_queue' = Tail(audio_queue)]_vars
  /\ [](Alive /\ pc = "L_get" => ENABLED GetBlock)

\* C1 witness: the consumer has got both blocks, in the order put
C1_Witness == dequeued = <<Block(1), Block(2)>> /\ pc = "L_proc"

\* C2: once stop_session has completed, the frames written to the WAV are
\* the frames of the blocks the consumer dequeued.
C2_LosslessAtFinalization ==
  finalized => FramesOf(wav_frames) = FramesOf(dequeued)

\* C3: the transcript stop_session wrote holds every final text that
\* process_audio returned.
C3_NoFinalLost ==
  (transcript_file # Absent /\ transcript_file[1].complete) =>
    \A i \in 1..Len(finals) :
      \E j \in 1..Len(TranscriptTexts) : TranscriptTexts[j] = finals[i]

\* C4: no finalization step runs twice, and a cancellation request that
\* arrives while a finalization is in progress changes nothing: the
\* finalization goes on from where it was.
C4_SecondCancelNoOp ==
  /\ [](\A s \in Steps : calls[s] <= 1)
  /\ [][(signals' = signals + 1 /\ InFinalization) =>
          UNCHANGED <<stack, loopVars, ctlVars, logVars, recVars, cbVars,
                      eng_buffered, aggVars, now, outVars, calls>>]_vars

\* C5: every step of stop_session's finalization either stays inside
\* stop_session or ends it normally with running False: no exception
\* leaves stop_session.
C5_StopAlwaysFinalizes ==
  [][(pc \in StopPcs /\ signals' = signals /\ stack' # stack) =>
       \/ Len(stack') = Len(stack) /\ NextPc \in StopPcs
       \/ finalized' /\ ~running']_vars

\* C6: when stop_session has completed, whichever step raised, the
\* transcript holding the aggregator's segments and the metadata have
\* been written.
C6_BestEffortFinalization ==
  finalized =>
    /\ calls["save_transcript"] >= 1 /\ calls["metadata"] >= 1
    /\ transcript_file = <<TranscriptContent(segments)>>
    /\ meta_file # Absent

\* C7: the consumer loop's except clause logs the error at ERROR and hands
\* over to main's stop_session without raising, and when the process has
\* then ended the transcript holds every segment.
C7_LoopFaultFinalizes ==
  /\ [][(MainStep("L_exc") /\ signals = 0) =>
          /\ Len(stack') = Len(stack) /\ NextPc = "ss_check"
          /\ errors' = Append(errors, "recording")]_vars
  /\ [](("recording" \in {errors[i] : i \in 1..Len(errors)}
           /\ ~Alive /\ signals = 0) =>
          transcript_file = <<TranscriptContent(segments)>>)

\* C8: after a process_audio call, failed or not, the consumer is still
\* inside the loop with the session running.
C8_DecodeFailureContinues ==
  [][MainStep("L_proc") =>
       Len(stack') = Len(stack) /\ NextPc \in LoopTry /\ running']_vars

\* C9: once the AudioRecorder has been constructed, the process does not
\* end on an error path without recorder.stop() having run and closed the
\* WAV.
C9_NoExitWithoutFinalization ==
  (~Alive /\ recorder /\ signals = 0) =>
    calls["recorder_stop"] >= 1 /\ wav_file = "closed"

\* C10: once a stop() has completed (the audio system is terminated), a
\* further stop() raises nothing and makes no call on the stream, the WAV
\* file or the audio system.
C10_StopIdempotent ==
  /\ [](audio = "terminated" => pc # "c_raised")
  /\ [][audio = "terminated" =>
          \A op \in LibraryCalls : calls'[op] = calls[op]]_vars

(* ------------------ properties of the TranscriptAggregator ------------ *)
\* a is a prefix of b
IsPrefix(a, b) ==
  Len(a) <= Len(b) /\ \A i \in 1..Len(a) : a[i] = b[i]

\* the body lines '[timestamp] text' of the segments segs, in order
SegLines(segs) ==
  [i \in 1..Len(segs) |-> <<segs[i].timestamp, segs[i].text>>]

\* the client's add_segment call runs; its argument is Top.text
AddStep == pc = "a_add" /\ stack' # stack

\* the texts that are None, empty or whitespace only
BlankTexts == {NoText, <<>>, <<" ">>}

\* the wall-clock time at which segment i was appended
AppendTime(i) == start_time + segments[i].elapsed_seconds

\* segment i is a line of the .partial snapshot on disk
InSnapshot(i) ==
  /\ partial_file # Absent
  /\ i <= Len(partial_file[1].lines)
  /\ partial_file[1].lines[i] = SegLines(segments)[i]

\* C11: segments are only ever appended, and when save_transcript has
\* written the final transcript while a .partial file exists, the lines of
\* the .partial file are a prefix of the lines of the final transcript.
C11_PartialIsPrefix ==
  /\ [][/\ Len(segments) <= Len(segments')
        /\ Len(segments') <= Len(segments) + 1
        /\ SubSeq(segments', 1, Len(segments)) = segments]_vars
  /\ [](pc = "sv_remove" =>
          IsPrefix(partial_file[1].lines, transcript_file[1].lines))

\* C12: as long as no partial save has failed, every segment that is not
\* in the .partial snapshot was appended less than save_interval after
\* the last save; an add_segment call made save_interval or more after the
\* last save writes a complete snapshot that ends with its segment.
C12_BoundedLoss ==
  /\ [](~partial_failed =>
          \A i \in 1..Len(segments) :
            ~InSnapshot(i) => AppendTime(i) - last_save_time < save_interval)
  /\ [][(/\ AddStep /\ Top.text \notin BlankTexts
         /\ now - last_save_time >= save_interval
         /\ ~partial_failed') =>
          /\ partial_file' # Absent /\ partial_file'[1].complete
          /\ partial_file'[1].lines = SegLines(segments')
          /\ segments'[Len(segments')].text = Strip(Top.text)]_vars

\* C12 witness: no save has failed; the first segment, appended
\* save_interval after creation, is in the snapshot, and the second,
\* appended right after that save, is in memory only
C12_Witness ==
  /\ ~partial_failed /\ calls["clear"] = 0 /\ pc = "c_idle"
  /\ Len(segments) = 2
  /\ AppendTime(1) >= save_interval
  /\ InSnapshot(1) /\ ~InSnapshot(2)
  /\ partial_file[1].complete

\* C13: the .partial file, whenever it exists, holds a complete snapshot.
C13_PartialAlwaysComplete ==
  partial_file # Absent => partial_file[1].complete

\* C14: an add_segment call whose periodic save is due returns normally
\* with its segment appended; either the snapshot now holds every segment
\* and last_save_time is the time of the call, or the save failed,
\* last_save_time is unchanged and the save is still due for the next call.
C14_FailedSaveRecovers ==
  [][(AddStep /\ Top.text \notin BlankTexts /\ SaveDue) =>
       /\ Len(stack') = Len(stack) /\ NextPc = "c_idle"
       /\ Len(segments') = Len(segments) + 1
       /\ SubSeq(segments', 1, Len(segments)) = segments
       /\ \/ /\ partial_file' # Absent /\ partial_file'[1].complete
             /\ partial_file'[1].lines = SegLines(segments')
             /\ last_save_time' = now
          \/ /\ last_save_time' = last_save_time
             /\ partial_failed'
             /\ SaveDue']_vars

\* C14 witness: a periodic save failed, and a later one has written a
\* snapshot holding both segments
C14_Witness ==
  /\ partial_failed /\ calls["clear"] = 0 /\ pc = "c_idle"
  /\ Len(segments) = 2
  /\ partial_file # Absent /\ partial_file[1].complete
  /\ partial_file[1].lines = SegLines(segments)
  /\ last_save_time = now

\* C15: when save_transcript's write succeeds, the transcript file holds
\* one line '[timestamp] text' per segment in append order, the footer
\* 'Total segments' is their number and, when there is a segment, the
\* Duration is the formatted elapsed time of the last one.
C15_TranscriptFormat ==
  [][(pc = "sv_write" /\ stack' # stack /\ NextPc # "c_raised") =>
       LET f == transcript_file'[1]
           n == Len(segments)
       IN /\ transcript_file' # Absent /\ f.complete
          /\ Len(f.lines) = n
          /\ \A i \in 1..n :
               f.lines[i] = <<segments[i].timestamp, segments[i].text>>
          /\ f.total = n
          /\ n > 0 => f.duration = format_timestamp(segments[n].elapsed_seconds)
          /\ n = 0 => f.duration = <<>>]_vars

\* C15 witness: save_transcript has returned after writing two segments
\* appended at different times
C15_Witness ==
  /\ pc = "c_idle" /\ transcript_file # Absent
  /\ transcript_file[1].complete
  /\ Len(transcript_file[1].lines) = 2 /\ transcript_file[1].total = 2
  /\ transcript_file[1].lines[1][1] # transcript_file[1].lines[2][1]

\* C16: when save_transcript returns normally no .partial file exists; the
\* .partial file is removed only after the final transcript was written,
\* and it is left in place when the write raises.
C16_SidecarRemoved ==
  /\ [][(pc \in {"sv_write", "sv_remove"} /\ NextPc = "c_idle") =>
          partial_file' = Absent]_vars
  /\ [][(partial_file # Absent /\ partial_file' = Absent) =>
          /\ pc = "sv_remove"
          /\ transcript_file # Absent /\ transcript_file[1].complete
          /\ transcript_file[1].lines = SegLines(segments)]_vars
  /\ [][(pc = "sv_write" /\ NextPc = "c_raised") =>
          partial_file' = partial_file]_vars

\* C17: each add_segment call with a text that is not blank appends one
\* segment holding the stripped text after the segments already held, the
\* count grows by one and the full transcript by a space and that text;
\* so after k such calls the texts are the k words passed, in call order.
C17_SegmentsInCallOrder ==
  /\ [][(AddStep /\ Top.text \notin BlankTexts) =>
          LET w == <<Word(Block(Len(segments) + 1))>> IN
            /\ get_segment_count' = get_segment_count + 1
            /\ SubSeq(segments', 1, Len(segments)) = segments
            /\ segments'[Len(segments')].text = w
            /\ JoinTexts(segments') =
                 IF segments = <<>> THEN w
                 ELSE JoinTexts(segments) \o <<" ">> \o w]_vars
  /\ [](\A i \in 1..Len(segments) : segments[i].text = <<Word(Block(i))>>)
  /\ [](Len(segments) = 2 =>
          JoinTexts(segments) = <<Word(Block(1)), " ", Word(Block(2))>>)

\* C17 witness: two calls have returned, the second with whitespace around
\* its word
C17_Witness ==
  /\ pc = "c_idle" /\ get_segment_count = 2
  /\ Top.text = <<" ", Word(Block(2)), " ">>
  /\ JoinTexts(segments) = <<Word(Block(1)), " ", Word(Block(2))>>

C19_BlankIsNoOp ==
  [][(AddStep /\ Top.text \in BlankTexts) =>
       /\ UNCHANGED <<segments, start_time, last_save_time, transcript_file,
                      partial_file, partial_failed>>
       /\ get_segment_count' = get_segment_count
       /\ Len(stack') = Len(stack) /\ NextPc = "c_idle"]_vars

\* C19 witness: a call with whitespace has returned while a periodic save
\* was due and a segment was in memory only
C19_Witness ==
  /\ pc = "c_idle" /\ Top.text = <<" ">>
  /\ SaveDue /\ segments # <<>>
  /\ partial_file = Absent /\ ~partial_failed

\* C20: no result of process_audio or get_final_result has a blank text,
\* and no segment has an empty text.
C20_NoEmptyEvent ==
  /\ result # NoResult => Strip(result.text) # <<>>
  /\ \A k \in 1..Len(stack) :
       stack[k].final_result # NoResult =>
         Strip(stack[k].final_result.text) # <<>>
  /\ \A i \in 1..Len(segments) : segments[i].text # <<>>

\* C20 witness: process_audio has returned None for a block on which the
\* recognizer gave no text or whitespace only
C20_Witness ==
  /\ pc = "L_check" /\ audio_block # None
  /\ result = NoResult /\ ~eng_buffered
  /\ dequeued # <<>>

\* the frame that runs stop_session has saved the transcript
SavedPcs == {"sv_remove", "ss_summary", "ss_meta", "ss_log", "ss_close"}

NothingCreated ==
  /\ ~session_folder /\ log_file = "none" /\ errors = <<>>
  /\ ~recorder /\ ~stt_engine /\ ~aggregator /\ ~summarizer /\ ~running
  /\ audio = "none" /\ stream = "none" /\ wav_file = "none"
  /\ segments = <<>> /\ transcript_file = Absent /\ partial_file = Absent
  /\ ~summary_file /\ meta_file = Absent
  /\ calls = [s \in Steps |-> 0]

\* start_session has returned False because validate_setup answered False
ValidationFailed == pc = "S_false" /\ log_file = "none"

\* C22: a validate_setup that does not answer True leaves nothing created
\* and running False; when it answers False start_session returns False,
\* main() then returns without a further step of the session, and a
\* stop_session called after that (by the signal handler) returns at its
\* guard and changes nothing.
C22_ValidationFailureIsInert ==
  /\ [][(MainStep("S_validate") /\ NextPc # "S_folder") =>
          /\ NextPc \in {"S_false", "crashed"}
          /\ NothingCreated']_vars
  /\ [](ValidationFailed => NothingCreated)
  /\ [][(ValidationFailed /\ stack' # stack) =>
          /\ NextPc = IF signals' # signals THEN "exited" ELSE "done"
          /\ NothingCreated']_vars

C22_Witness == ValidationFailed /\ ~running /\ ~session_folder

\* pcs of the consumer loop and its except clause
LoopPcs == LoopTry \cup {"L_exc"}

\* no recording has begun: start() was not called, running is not set,
\* no frame is in the consumer loop, no block was queued, got or written
NoRecordingYet ==
  /\ ~running /\ ~recording
  /\ \A i \in 1..Len(stack) : stack[i].pc \notin LoopPcs
  /\ audio_queue = <<>> /\ enqueued = <<>> /\ dequeued = <<>>
  /\ wav_frames = <<>> /\ frames_recorded = 0

\* C23: as long as the recognition model is not loaded, which is for ever
\* once opening the device or loading the model has failed, no recording
\* has begun, whatever the driver delivers to the callback; the except
\* clause that has logged the error returns False, and main() then
\* returns without touching the controller or the recorder.
C23_StartFailureBeforeRecording ==
  /\ [](~stt_engine => NoRecordingYet)
  /\ [][(MainStep("S_exc") /\ errors' # errors) =>
          NextPc = "S_false" /\ errors' = Append(errors, "starting")]_vars
  /\ [][MainStep("S_false") =>
          NextPc = "done" /\ UNCHANGED <<ctlVars, recVars, histVars>>]_vars

\* the model failed to load with the stream open, and the driver has
\* called the callback since
C23_Witness ==
  /\ pc = "S_false" /\ ~stt_engine /\ stream = "active" /\ nblocks >= 1
  /\ errors = <<"starting">>

\* the errors the metadata file lists
MetaErrors == IF meta_file = Absent THEN <<>> ELSE meta_file[1].errors

\* C24: when stop_session has finalized a session, its metadata file
\* exists and lists every error the logger tracked, and a failed periodic
\* save is among the tracked errors.
C24_ErrorsInMetadata ==
  finalized =>
    /\ meta_file # Absent
    /\ MetaErrors = errors
    /\ partial_failed => errors # <<>>

\* C25: when stop_session has finalized a session whose summary step
\* raised, the metadata file is written and the log file is closed.
C25_SummaryFailureTolerated ==
  (finalized /\ calls["summary"] = 1 /\ ~summary_file) =>
    meta_file # Absent /\ log_file = "closed"

\* pcs of _init_audio's retry loop
RetryPcs == {"S_open", "S_sleep"}

\* a measure of the turns the retry loop has left
RetryVariant(f) ==
  2 * (max_retries - f.retry_count) + (IF f.pc = "S_sleep" THEN 1 ELSE 0)

\* the pc of a frame in which recorder construction has raised
InitRaisedPcs == {"S_exc", "c_raised"}

\* C26: inside the retry loop fewer than 3 opens have failed, so an open
\* is attempted at most 3 times; a successful open ends the loop with no
\* further attempt; a failed open that is not the third is followed by one
\* sleep and then the next attempt; the third failed open raises at once,
\* without a sleep, and the loop raises in no other case; every turn of
\* the loop lowers a measure that is never negative, so the loop ends.
C26_BoundedRetry ==
  /\ [](pc \in RetryPcs =>
          Top.retry_count < max_retries /\ RetryVariant(Top) >= 0)
  /\ [][MainStep("S_open") =>
          LET n == stack'[Len(stack')].retry_count IN
            \/ /\ stream' = "active" /\ NextPc = "S_wav"
               /\ n = Top.retry_count
            \/ /\ stream' = stream /\ n = Top.retry_count + 1
               /\ IF n = max_retries
                  THEN NextPc \in InitRaisedPcs
                  ELSE NextPc = "S_sleep"]_vars
  /\ [][MainStep("S_sleep") =>
          /\ NextPc = "S_open" /\ UNCHANGED stream
          /\ stack'[Len(stack')].retry_count = Top.retry_count]_vars
  /\ [][(pc \in RetryPcs /\ stack' # stack /\ NextPc \in RetryPcs) =>
          RetryVariant(stack'[Len(stack')]) < RetryVariant(Top)]_vars

\* the third open has failed and construction has raised
C26_Witness ==
  /\ pc \in InitRaisedPcs /\ Top.retry_count = max_retries
  /\ stream = "none" /\ audio = "live"

\* the 0-based indexes of the input devices whose name contains the
\* configured filter, letter case ignored
MatchingInputs ==
  { i \in 0..(Len(devices) - 1) :
      /\ devices[i + 1].maxInputChannels > 0
      /\ Contains(Lower(mic_device_name), Lower(devices[i + 1].name)) }

\* C27: with a device name filter configured, when the device search is
\* over the selected index is the lowest index of a matching input
\* device, and when no input device matches the index is None and the
\* warning has been printed.
C27_LowestMatchingInput ==
  (pc = "S_open" /\ mic_device_name # NoName) =>
    IF MatchingInputs = {}
    THEN Top.device = [index |-> NoIndex, warned |-> TRUE]
    ELSE /\ Top.device.index # NoIndex
         /\ Top.device.index[1] \in MatchingInputs
         /\ \A i \in MatchingInputs : Top.device.index[1] <= i

\* C28: when stop_session has finalized a session, the audio stream is
\* closed, the WAV file is closed, the audio system is terminated, the
\* log file is closed and running is False.
C28_ResourcesReleased ==
  finalized =>
    /\ stream = "closed" /\ wav_file = "closed" /\ audio = "terminated"
    /\ log_file = "closed" /\ ~running

\* the steps of stop_session, in program order
FinalizationOrder ==
  <<"recorder_stop", "stop_stream", "stream_close", "wav_close", "terminate",
    "flush", "save_transcript", "summary", "metadata", "logger_close">>

\* the step whose count the transition raises, if any
StepTaken(s) == calls'[s] = calls[s] + 1

\* C29: every finalization step runs at most once in a session; when a
\* step runs, no later step of the order (stop capture up to the WAV
\* close and the terminate, flush, save transcript, summarize, write
\* metadata, close logger) has run and every earlier step except the
\* optional summary has run once; the trailing segment is appended after
\* the flush and before the save; the summary step calls the summarizer
\* exactly when the stripped full text is not empty.
C29_FinalizationOrder ==
  /\ [](\A s \in Steps \ {"clear"} : calls[s] <= 1)
  /\ [][\A k \in 1..Len(FinalizationOrder) :
          StepTaken(FinalizationOrder[k]) =>
            /\ \A j \in (k + 1)..Len(FinalizationOrder) :
                 calls[FinalizationOrder[j]] = 0
            /\ \A j \in 1..(k - 1) :
                 FinalizationOrder[j] # "summary" =>
                   calls[FinalizationOrder[j]] = 1]_vars
  /\ [](calls["flush"] = 1 => wav_file = "closed" /\ ~recording)
  /\ [][MainStep("ss_add") =>
          /\ calls["flush"] = 1 /\ calls["save_transcript"] = 0
          /\ Len(segments') = Len(segments) + 1
          /\ NextPc = "sv_write"]_vars
  /\ [][MainStep("ss_summary") =>
          (StepTaken("summary") <=> Strip(JoinTexts(segments)) # <<>>)]_vars

\* a finalization that ran every step, the summary included, after a
\* trailing segment was appended
C29_Witness ==
  /\ finalized /\ calls["logger_close"] = 1 /\ calls["summary"] = 1
  /\ calls["flush"] = 1 /\ Len(segments) > Len(finals)

\* the texts of the segments, in order
SegmentTexts == [i \in 1..Len(segments) |-> segments[i].text]

\* the texts the recognizer may answer for any block of a run
AllEngineTexts == UNION { EngineTexts(Word(Block(i))) : i \in 1..MaxBlocks }

\* C30: without a boundary process_audio answers a partial event or None,
\* and with a boundary and non-blank text it answers a final event; a
\* process_audio call that answers no final event leaves the aggregator
\* and its files as they were and the loop does not call add_segment; a
\* call that answers a final event counts one final and goes on to
\* add_segment, which appends exactly one segment with the event's text;
\* segments are appended only by add_segment for a final event or for the
\* flushed text; whenever the loop is between two iterations the segments
\* are exactly the final events so far.
C30_OnlyFinalsMakeSegments ==
  /\ [](\A text \in AllEngineTexts :
          /\ Classify(FALSE, text).type \in {"partial", "none"}
          /\ Strip(text) # <<>> => Classify(TRUE, text).type = "final")
  /\ [][MainStep("L_proc") =>
          IF result'.type = "final"
          THEN /\ finals' = Append(finals, Strip(result'.text))
               /\ NextPc = "L_add" /\ UNCHANGED aggVars
          ELSE /\ finals' = finals /\ UNCHANGED aggVars
               /\ NextPc \in {"L_check", "L_exc"}]_vars
  /\ [][MainStep("L_add") =>
          /\ result.type = "final"
          /\ segments' = Append(segments, Segment(result.text))
          /\ NextPc = "L_log"]_vars
  /\ [][segments' # segments => pc \in {"L_add", "ss_add"}]_vars
  /\ []((Len(stack) = 1 /\ pc \in LoopTry \ {"L_add"}) => SegmentTexts = finals)

\* one block gave no final event, the other gave one, and its segment is
\* the only one
C30_Witness ==
  /\ pc = "L_log" /\ Len(dequeued) = 2 /\ Len(finals) = 1
  /\ SegmentTexts = finals

\* C31: the loop enters an iteration only from its test of the running
\* flag, and only with the flag set; the test leaves the loop when the
\* flag is clear; get_audio_block on an empty queue returns None and the
\* iteration ends at once, back at the test; while running is False no
\* block is dequeued, none is fed to the engine and the loop appends no
\* segment (the only segment appended then is stop_session's flushed one).
C31_CooperativeCancellation ==
  /\ [][(stack' # stack /\ pc # "L_get" /\ NextPc = "L_get") =>
          pc = "L_check" /\ running]_vars
  /\ [][MainStep("L_check") =>
          NextPc = IF running THEN "L_get" ELSE "ss_check"]_vars
  /\ [][(MainStep("L_get") /\ audio_queue = <<>>) =>
          /\ NextPc = "L_check" /\ audio_block' = None
          /\ dequeued' = dequeued]_vars
  /\ [][~running =>
          /\ dequeued' = dequeued /\ audio_block' = audio_block
          /\ finals' = finals /\ result' = result
          /\ (segments' # segments => pc = "ss_add")]_vars

\* the session was cancelled while the loop was about to dequeue, with a
\* block waiting in the queue
C31_Witness ==
  /\ ~running /\ Len(stack) = 2 /\ stack[1].pc = "L_get"
  /\ audio_queue # <<>>

DigitValue(c) == CHOOSE d \in 0..9 : DigitChars[d + 1] = c

IsDigit(c) == \E d \in 0..9 : DigitChars[d + 1] = c

\* the number a string of digits stands for
RECURSIVE Value(_)
Value(t) ==
  IF t = <<>> THEN 0
  ELSE 10 * Value(SubSeq(t, 1, Len(t) - 1)) + DigitValue(t[Len(t)])

\* C33: for s whole seconds plus any fraction of a second, _format_timestamp
\* returns H:MM:SS where H is s div 3600 written with at least two digits
\* and no further leading zero, MM is (s mod 3600) div 60 and SS is s mod 60,
\* each of exactly two digits; the fraction is dropped and hours do not wrap
\* at 24 (90000 s is 25:00:00).
C33_FormatTimestamp ==
  (pc = "c_idle" /\ Top.timestamp # <<>>) =>
    LET t == Top.timestamp
        s == Top.elapsed_ms \div 1000
        n == Len(t)
        hh == SubSeq(t, 1, n - 6)
        mm == SubSeq(t, n - 4, n - 3)
        ss == SubSeq(t, n - 1, n)
    IN /\ n >= 8 /\ t[n - 5] = ":" /\ t[n - 2] = ":"
       /\ \A i \in (1..n) \ {n - 5, n - 2} : IsDigit(t[i])
       /\ Value(hh) = s \div 3600
       /\ Value(mm) = (s % 3600) \div 60
       /\ Value(ss) = s % 60
       /\ Len(hh) > 2 => hh[1] # "0"
       /\ s = 90000 => t = <<"2", "5", ":", "0", "0", ":", "0", "0">>

\* C33 witness: 90000.999 s has been formatted as 25:00:00
C33_Witness ==
  /\ pc = "c_idle" /\ Top.elapsed_ms = 90000999
  /\ Top.timestamp = <<"2", "5", ":", "0", "0", ":", "0", "0">>

\* the driver delivers a block: the callback is entered
Delivered == cb_pc = "idle" /\ nblocks' = nblocks + 1

\* what the callback produces: queue entries, WAV frames, the frame count
CaptureUnchanged ==
  /\ audio_queue' = audio_queue /\ enqueued' = enqueued
  /\ wav_frames' = wav_frames /\ frames_recorded' = frames_recorded

\* C34: a block delivered while the recording flag is False (before start(),
\* or after stop() cleared it, which stop() does first) is dropped: the
\* callback returns having enqueued, written and counted nothing. Blocks are
\* enqueued, written and counted only by a callback that saw the flag True.
C34_CallbackGated ==
  /\ [][(Delivered /\ ~recording) =>
          cb_pc' = "idle" /\ CaptureUnchanged]_vars
  /\ [][(Delivered /\ calls["recorder_stop"] >= 1) =>
          cb_pc' = "idle" /\ CaptureUnchanged]_vars
  /\ [][(cb_pc = "idle" /\ cb_pc' # "idle") =>
          recording /\ stream = "active"]_vars
  /\ [][enqueued' # enqueued => cb_pc = "put"]_vars
  /\ [][(wav_frames' # wav_frames \/ frames_recorded' # frames_recorded) =>
          cb_pc = "write"]_vars

\* C34 witness: block 1 was captured, stop() cleared the flag while the stream
\* was still active, and block 2, delivered after that, left no trace
C34_Witness ==
  /\ pc = "st_stop" /\ stream = "active" /\ ~recording
  /\ nblocks = 2 /\ cb_pc = "idle"
  /\ enqueued = <<Block(1)>> /\ wav_frames = <<Block(1)>>
  /\ frames_recorded = chunk_size

C36_NoWriteAfterClose ==
  /\ [](~late_write)
  /\ [](wav_file = "closed" => cb_pc = "idle" /\ stream # "active")
  /\ [][(wav_file # "closed" /\ wav_file' = "closed") =>
          cb_pc = "idle" /\ stream = "closed"]_vars
  /\ [][wav_file = "closed" =>
          wav_frames' = wav_frames /\ frames_recorded' = frames_recorded]_vars

\* C36 witness: stop() has cleared the flag while a callback that passed the
\* check still has its block to write
C36_Witness ==
  /\ pc = "st_stop" /\ ~recording /\ stream = "active"
  /\ cb_pc = "write" /\ wav_file = "open"

\* C37: whenever neither thread is inside an operation, the lists
\* get_transcripts has returned, concatenated, followed by the pending
\* session_buffer are the master transcript: every text is delivered once.
C37_DeliveredOnce ==
  (l_pc = "l_wait" /\ p_pc = "p_idle") =>
    delivered \o session_buffer = master_transcript

\* the text as listener_loop keeps it
Normalised(u) == Strip(Lower(u.raw))

\* C38: an utterance is kept for the two transcripts only if it is heard
\* while active and holds neither a wake nor a sleep word, and nothing else
\* is ever appended to session_buffer or master_transcript; active turns True
\* only on an utterance with a wake word and False only on one with a sleep
\* word and no wake word; an utterance heard while inactive leaves both
\* transcripts and the listener's pending text as they were.
C38_WakeSleepGating ==
  /\ [][\A u \in Utterances :
          (ListenerHear(u) /\ l_pc' = "l_load") =>
            /\ active /\ active' /\ ~u.wake /\ ~u.sleep
            /\ l_text' = Normalised(u)]_vars
  /\ [][\A u \in Utterances :
          (ListenerHear(u) /\ ~active /\ active') => u.wake]_vars
  /\ [][\A u \in Utterances :
          (ListenerHear(u) /\ active /\ ~active') => u.sleep /\ ~u.wake]_vars
  /\ [][active' # active => l_pc = "l_wait" /\ heard' = heard + 1]_vars
  /\ [][\A u \in Utterances :
          (ListenerHear(u) /\ ~active) =>
            /\ l_pc' = "l_wait" /\ l_text' = l_text
            /\ session_buffer' = session_buffer
            /\ master_transcript' = master_transcript]_vars
  /\ [][master_transcript' # master_transcript =>
          /\ l_pc = "l_master" /\ active
          /\ master_transcript' = Append(master_transcript, l_text)]_vars
  /\ [][(session_buffer' # session_buffer /\ session_buffer' # <<>>) =>
          /\ l_pc = "l_append" /\ active
          /\ session_buffer' = Append(session_buffer, l_text)]_vars

\* C38 witness: four utterances heard, among them a wake word, one text that
\* was kept and a sleep word: the transcript holds the one text
C38_Witness ==
  /\ heard = 4 /\ ~active /\ l_pc = "l_wait"
  /\ master_transcript = << <<"n", "o", "t", "e">> >>
  /\ delivered \o session_buffer = master_transcript

====
